---- MODULE Spec2Model ----
(***************************************************************************)
(* QAMModem: the constellation codec (runtime-order ModulatorQAM /         *)
(* DemodulatorQAM and compile-time-order ModulatorQAM<Levels,T> /          *)
(* DemodulatorQAM<Levels,T>), the AWGN channel NoiseAdder and the          *)
(* multi-threaded Monte Carlo estimator simulate_mod.                      *)
(*                                                                         *)
(* Numbers.  A float is modelled as an exact rational with denominator     *)
(* ScaleDen: the integer n stands for n / ScaleDen (float rounding is not  *)
(* modelled).  An int16_t / int32_t is the integer itself, wrapped to its  *)
(* width on every store.  A symbol is a pair <<re, im>> of such numbers.   *)
(***************************************************************************)
EXTENDS Integers, Sequences, FiniteSets, TLC

VARIABLES
    cfg,          \* the codec under test: [variant, levels, repr, scale]
    modTab,       \* ModulatorQAM::constellation_
    demTab,       \* DemodulatorQAM::constellation_
    bitPatterns,  \* DemodulatorQAM::bit_patterns_
    inBits,       \* the caller's bit batch (std::vector<uint8_t>)
    syms,         \* the symbol batch returned by modulate
    rx,           \* the symbol batch handed to demodulate_hard
    outBits,      \* the bit batch returned by demodulate_hard
    pc,           \* where the codec caller is: idle, threw, modulated, noised, demodulated
    failedBefore, \* a modulate call on this modulator has thrown
    sigma,        \* the sigma argument of the last demodulate_soft call
    llrs,         \* the values returned by demodulate_soft
    params,       \* SimulationParams p of the run, with modulation_levels
    noiseless,    \* the channel of the run draws only zero samples
    snr,          \* the loop variable of the SNR list's loop
    snrs,         \* std::vector<double> snrs
    errors,       \* std::vector<std::atomic<uint64_t>> errors
    bits,         \* std::vector<std::atomic<uint64_t>> bits
    mainPc,       \* where simulate_mod's own thread is
    t_idx,        \* the spawn loop's counter
    joinIdx,      \* the number of threads joined so far
    reportIdx,    \* the result loop's counter i
    threadPc,     \* where each worker thread is
    threadI,      \* each worker's SNR index i
    threadIter,   \* each worker's iteration counter iter
    threadErr,    \* each worker's local err of the trial in progress
    threadLen,    \* each worker's b.size() of the trial in progress
    trialErrSum,  \* per SNR index, the sum of err over the finished comparison loops
    trialCount,   \* per SNR index, the number of finished comparison loops
    sink,         \* what the CsvWriter has received, in order
    threadHist,   \* per worker, the trials started and the trials counted, in order
    threadRx,     \* per worker, the sizes of s, n and r of the trial in progress
    access,       \* the accesses to objects made since the first worker was started
    noisePath,    \* the addNoise body under test
    noiseArgOrder,\* the order in which the build evaluates call arguments
    noiseSeed,    \* what the random engine of the last call was seeded with
    noiseSnrDb,   \* NoiseAdder::snr_db_
    noiseIn,      \* the symbols passed to addNoise
    noisy,        \* the symbols returned by addNoise
    noiseDraws,   \* the number of dist(rng) calls made on the engine of the last call
    noiseSigmaSq, \* the square of the sigma the call constructed dist with
    noisePc,      \* idle, called or returned
    noiseCalls,   \* the number of addNoise calls made on the NoiseAdder
    ctor,         \* the modulator or demodulator under construction
    clock,        \* the last reading of std::chrono::high_resolution_clock
    seeds,        \* the seeds computed by the spawn loop so far, one per worker
    seedWorkers   \* p.num_threads of the spawn loop whose seeds are followed

vars == <<cfg, modTab, demTab, bitPatterns, inBits, syms, rx, outBits,
          pc, failedBefore, sigma, llrs, params, noiseless, snr, snrs, errors, bits, mainPc,
          t_idx, joinIdx, reportIdx, threadPc, threadI, threadIter, threadErr,
          threadLen, trialErrSum, trialCount, sink, threadHist, threadRx, access,
          noisePath, noiseArgOrder,
          noiseSeed, noiseSnrDb, noiseIn, noisy, noiseDraws, noiseSigmaSq, noisePc,
          noiseCalls, ctor, clock, seeds, seedWorkers>>

simVars == <<params, noiseless, snr, snrs, errors, bits, mainPc, t_idx, joinIdx,
             reportIdx, threadPc, threadI, threadIter, threadErr, threadLen,
             trialErrSum, trialCount, sink, threadHist,
             threadRx, access>>

noiseVars == <<noisePath, noiseArgOrder, noiseSeed, noiseSnrDb, noiseIn, noisy,
               noiseDraws, noiseSigmaSq, noisePc, noiseCalls>>

seedVars == <<clock, seeds, seedWorkers>>

codecVars == <<cfg, modTab, demTab, bitPatterns, inBits, syms, rx,
               outBits, pc, failedBefore, sigma, llrs>>

----------------------------------------------------------------------------
(* Bounds of the model *)

\* longest bit batch a caller builds
MaxBits == 6
\* longest symbol batch that is sent through the noisy channel
MaxNoisySyms == 1

(* 1.0f / 3.0f of SixteenQAMConstellationTest: the denominator of the       *)
(* rationals that stand for floats.                                         *)
ScaleDen == 3

----------------------------------------------------------------------------
(* Integer helpers: the C++ operators used by the codec *)

RECURSIVE Xor(_, _)
\* a ^ b on non-negative ints
Xor(a, b) ==
    IF a = 0 /\ b = 0 THEN 0
    ELSE (((a % 2) + (b % 2)) % 2) + 2 * Xor(a \div 2, b \div 2)

\* a >> k on non-negative ints
Shr(a, k) == a \div (2 ^ k)

\* a & ((1 << k) - 1)
LowBits(a, k) == a % (2 ^ k)

\* conversion of an int to intN_t (modular)
WrapInt(x, width) ==
    ((x + (2 ^ (width - 1))) % (2 ^ width)) - (2 ^ (width - 1))

\* the value of type T that holds the integer literal n
Lit(n, repr) == IF repr = "float" THEN n * ScaleDen ELSE n

\* store of x into a T; an int32_t holds every int
Store(x, repr) ==
    CASE repr = "float" -> x
      [] repr = "int16" -> WrapInt(x, 16)
      [] repr = "int32" -> x

\* a * b in T (both operands of type T), stored into a T
Mul(a, b, repr) ==
    IF repr = "float" THEN (a * b) \div ScaleDen ELSE Store(a * b, repr)

----------------------------------------------------------------------------
(* Construction *)

calculate_bits_per_symbol(levels) ==
    CASE levels = 4 -> 2
      [] levels = 16 -> 4
      [] levels = 64 -> 6

\* pam_levels_arr of the runtime codec, pam_levels of the template demodulator
PamLevels(levels) ==
    IF levels = 16 THEN <<-3, -1, 1, 3>>
    ELSE <<-7, -5, -3, -1, 1, 3, 5, 7>>

\* the hand-enumerated QPSK points
QpskPoints == <<(<<1, 1>>), (<<-1, 1>>), (<<-1, -1>>), (<<1, -1>>)>>

\* val ^ (val >> 1)
GrayXorShift(v) == Xor(v, Shr(v, 1))

RECURSIVE from_gray_loop(_, _)
from_gray_loop(g, b) ==
    IF g = 0 THEN b ELSE from_gray_loop(Shr(g, 1), Xor(b, g))

\* DemodulatorQAM<Levels,T>::from_gray
from_gray(g) == from_gray_loop(g, 0)

\* the unscaled table of the runtime codec (modulator and demodulator alike)
RuntimePoints(levels) ==
    IF levels = 4 THEN QpskPoints
    ELSE LET bps == calculate_bits_per_symbol(levels)
             pam == PamLevels(levels)
         IN  [k \in 1..levels |->
                LET index == k - 1
                    val_x_bits == Shr(index, bps \div 2)
                    val_y_bits == LowBits(index, bps \div 2)
                    gray_idx_x == GrayXorShift(val_x_bits)
                    gray_idx_y == GrayXorShift(val_y_bits)
                IN  <<pam[gray_idx_x + 1], pam[gray_idx_y + 1]>>]

\* the scaling loop: point.first *= scale_factor_; point.second *= scale_factor_
ScalePoints(points, scale, repr) ==
    [k \in 1..Len(points) |->
        <<Mul(Lit(points[k][1], repr), scale, repr),
          Mul(Lit(points[k][2], repr), scale, repr)>>]

\* ModulatorQAM::generateConstellation, the table
Mod_generateConstellation(levels, scale) ==
    ScalePoints(RuntimePoints(levels), scale, "float")

\* DemodulatorQAM::generateConstellation: no scale factor
Demod_generateConstellation(levels) ==
    [k \in 1..levels |->
        <<Lit(RuntimePoints(levels)[k][1], "float"),
          Lit(RuntimePoints(levels)[k][2], "float")>>]

\* the unscaled table of ModulatorQAM<Levels,T>: the two nested PAM loops
TemplateModPoints(levels) ==
    IF levels = 4 THEN QpskPoints
    ELSE LET side == IF levels = 16 THEN 4 ELSE 8
             low == IF levels = 16 THEN -3 ELSE -7
         IN  [k \in 1..levels |->
                <<low + (2 * ((k - 1) \div side)), low + (2 * ((k - 1) % side))>>]

\* ModulatorQAM<Levels,T>::generateConstellation, the table
ModT_generateConstellation(levels, repr, scale) ==
    ScalePoints(TemplateModPoints(levels), scale, repr)

\* DemodulatorQAM<Levels,T>::generateConstellation
DemodT_generateConstellation(levels, repr, scale) ==
    CASE levels = 4 ->
            [k \in 1..4 |-> <<Lit(QpskPoints[k][1], repr), Lit(QpskPoints[k][2], repr)>>]
      [] levels = 16 ->
            [k \in 1..16 |->
                LET idx == k - 1
                    upper_bits == LowBits(Shr(idx, 2), 2)
                    lower_bits == LowBits(idx, 2)
                    gray_upper == GrayXorShift(upper_bits)
                    gray_lower == GrayXorShift(lower_bits)
                IN  <<Mul(Lit(PamLevels(16)[gray_upper + 1], repr), scale, repr),
                      Mul(Lit(PamLevels(16)[gray_lower + 1], repr), scale, repr)>>]
      [] levels = 64 ->
            [k \in 1..64 |->
                LET idx == k - 1
                    gray_j == LowBits(Shr(idx, 3), 3)
                    gray_i == LowBits(idx, 3)
                    j == from_gray(gray_j)
                    i == from_gray(gray_i)
                IN  <<Mul(Lit(PamLevels(64)[j + 1], repr), scale, repr),
                      Mul(Lit(PamLevels(64)[i + 1], repr), scale, repr)>>]

\* generateBitPatterns (both demodulators): pattern[j] = (i >> (bps - 1 - j)) & 1
generateBitPatterns(levels) ==
    LET bps == calculate_bits_per_symbol(levels)
    IN  [k \in 1..levels |->
            [j \in 1..bps |-> LowBits(Shr(k - 1, bps - j), 1)]]

\* the modulator's table for a configuration
BuildModTab(c) ==
    IF c.variant = "runtime"
    THEN Mod_generateConstellation(c.levels, c.scale)
    ELSE ModT_generateConstellation(c.levels, c.repr, c.scale)

\* the demodulator's table for a configuration
BuildDemTab(c) ==
    IF c.variant = "runtime"
    THEN Demod_generateConstellation(c.levels)
    ELSE DemodT_generateConstellation(c.levels, c.repr, c.scale)

----------------------------------------------------------------------------
(* modulate *)

RECURSIVE symbol_index_LsbFirst(_, _, _, _)
\* the group read with its first bit as the least significant one
symbol_index_LsbFirst(bitsIn, base, j, acc) ==
    IF j = 0 THEN acc
    ELSE symbol_index_LsbFirst(bitsIn, base, j - 1, acc)
            + (bitsIn[base + j] * (2 ^ (j - 1)))

RECURSIVE symbol_index(_, _, _, _)
\* the inner loop of modulate after j bits of the group that starts at base:
\* symbol_index = (symbol_index << 1) | bits[base + j]
symbol_index(bitsIn, base, j, acc) ==
    IF j = 0 THEN acc
    ELSE LET prev == symbol_index(bitsIn, base, j - 1, acc)
         IN  (2 * prev) + bitsIn[base + j]

\* the outer loop of modulate: symbols[i] = constellation_[symbol_index]
ModulateLoop(tab, bps, bitsIn) ==
    [i \in 1..(Len(bitsIn) \div bps) |->
        tab[symbol_index(bitsIn, (i - 1) * bps, bps, 0) + 1]]

\* modulate without the length test: the trailing partial group is dropped
Mod_modulate_Truncating(tab, bps, bitsIn) ==
    [threw |-> FALSE, symbols |-> ModulateLoop(tab, bps, bitsIn)]

\* modulate whose length test also rejects the empty sequence
Mod_modulate_RejectsEmpty(tab, bps, bitsIn) ==
    IF bitsIn = <<>> \/ Len(bitsIn) % bps # 0
    THEN [threw |-> TRUE, symbols |-> <<>>]
    ELSE [threw |-> FALSE, symbols |-> ModulateLoop(tab, bps, bitsIn)]

\* ModulatorQAM::modulate (runtime order)
Mod_modulate(tab, bps, bitsIn) ==
    IF Len(bitsIn) % bps # 0 THEN [threw |-> TRUE, symbols |-> <<>>]
    ELSE IF bitsIn = <<>> THEN [threw |-> FALSE, symbols |-> <<>>]
    ELSE [threw |-> FALSE, symbols |-> ModulateLoop(tab, bps, bitsIn)]

\* ModulatorQAM<Levels,T>::modulate (compile-time order)
ModT_modulate(tab, bps, bitsIn) ==
    IF Len(bitsIn) % bps # 0 THEN [threw |-> TRUE, symbols |-> <<>>]
    ELSE [threw |-> FALSE, symbols |-> ModulateLoop(tab, bps, bitsIn)]

----------------------------------------------------------------------------
(* demodulate_hard *)

(* A squared distance is kept exactly, as <<high, low>> with value          *)
(* high * 2^16 + low, 0 <= low < 2^16: the squares of int16_t differences   *)
(* do not fit a 32-bit integer.                                           *)

\* std::numeric_limits<float>::infinity() as the initial best distance
Infinity == <<-1, 0>>

\* x * x
SquareWide(x) ==
    IF -32768 < x /\ x < 32768
    THEN <<(x * x) \div 65536, (x * x) % 65536>>
    ELSE LET a == IF x < 0 THEN -x ELSE x
             h == a \div 256
             l == a % 256
             mid == (2 * h * l * 256) + (l * l)
         IN  <<(h * h) + (mid \div 65536), mid % 65536>>

\* p + q
AddWide(p, q) ==
    LET lo == p[2] + q[2]
    IN  <<p[1] + q[1] + (lo \div 65536), lo % 65536>>

\* dr * dr + di * di
distance_squared(a, b) ==
    AddWide(SquareWide(a[1] - b[1]), SquareWide(a[2] - b[2]))

\* dist_sq <= best_dist_sq: a later point at the same distance wins
DistLessOrEqual(d, best) ==
    \/ best = Infinity
    \/ d[1] < best[1]
    \/ d[1] = best[1] /\ d[2] <= best[2]

\* dist_sq < best_dist_sq
DistLess(d, best) ==
    \/ best = Infinity
    \/ d[1] < best[1]
    \/ d[1] = best[1] /\ d[2] < best[2]

RECURSIVE HardSearch(_, _, _, _, _)
\* the search loop from index idx on, with the best index and distance so far:
\* if (dist_sq < best_dist_sq) { best_dist_sq = dist_sq; best_idx = idx; }
HardSearch(s, tab, idx, best_idx, best_dist) ==
    IF idx >= Len(tab) THEN best_idx
    ELSE LET dist == distance_squared(s, tab[idx + 1])
         IN  IF DistLess(dist, best_dist)
             THEN HardSearch(s, tab, idx + 1, idx, dist)
             ELSE HardSearch(s, tab, idx + 1, best_idx, best_dist)

\* DemodulatorQAM::demodulate_hard: best_idx of one symbol
Demod_best_idx(s, tab) == HardSearch(s, tab, 0, 0, Infinity)

\* a search that keeps its first candidate
DemodT_best_idx_First(s, tab) == 0

\* DemodulatorQAM<Levels,T>::demodulate_hard: best_idx of one symbol
DemodT_best_idx(s, tab) ==
    HardSearch(s, tab, 1, 0, distance_squared(s, tab[1]))

RECURSIVE PushPatterns(_, _, _)
\* bits.push_back(bit_patterns_[best_idx][j]) for every symbol, in order
PushPatterns(idxs, patterns, n) ==
    IF n = 0 THEN <<>>
    ELSE PushPatterns(idxs, patterns, n - 1) \o patterns[idxs[n] + 1]

\* DemodulatorQAM::demodulate_hard (runtime order)
Demod_demodulate_hard(tab, patterns, symbols) ==
    IF symbols = <<>> THEN <<>>
    ELSE PushPatterns([k \in 1..Len(symbols) |-> Demod_best_idx(symbols[k], tab)],
                      patterns, Len(symbols))

\* DemodulatorQAM<Levels,T>::demodulate_hard (compile-time order)
DemodT_demodulate_hard(tab, patterns, symbols) ==
    PushPatterns([k \in 1..Len(symbols) |-> DemodT_best_idx(symbols[k], tab)],
                 patterns, Len(symbols))

\* p - q on exact squared distances: <<high, low>> with high possibly negative
SubWide(p, q) ==
    LET lo == p[2] - q[2]
    IN  <<(p[1] - q[1]) + (lo \div 65536), lo % 65536>>

\* the log-likelihood ratio with the two distances swapped
Llr_Swapped(min_dist0, min_dist1, sigma_sq) ==
    [num |-> SubWide(min_dist1, min_dist0), den |-> 2 * sigma_sq]

\* llr = (min_dist0 - min_dist1) / (2.0f * sigma_sq), kept as the fraction
\* num / den with num in squared units of the representation
Llr(min_dist0, min_dist1, sigma_sq) ==
    CASE min_dist0 = Infinity /\ min_dist1 = Infinity -> "nan"
      [] min_dist0 = Infinity /\ min_dist1 # Infinity -> "inf"
      [] min_dist0 # Infinity /\ min_dist1 = Infinity -> "-inf"
      [] OTHER -> [num |-> SubWide(min_dist0, min_dist1), den |-> 2 * sigma_sq]

RECURSIVE SoftSearch(_, _, _, _, _, _, _)
\* the inner loop of demodulate_soft for bit j from index idx on, with the two
\* minima so far
SoftSearch(s, tab, patterns, j, idx, min_dist0, min_dist1) ==
    IF idx > Len(tab) THEN <<min_dist0, min_dist1>>
    ELSE LET dist == distance_squared(s, tab[idx])
         IN  IF patterns[idx][j] = 1
             THEN IF DistLess(dist, min_dist1)
                  THEN SoftSearch(s, tab, patterns, j, idx + 1, min_dist0, dist)
                  ELSE SoftSearch(s, tab, patterns, j, idx + 1, min_dist0, min_dist1)
             ELSE IF DistLess(dist, min_dist0)
                  THEN SoftSearch(s, tab, patterns, j, idx + 1, dist, min_dist1)
                  ELSE SoftSearch(s, tab, patterns, j, idx + 1, min_dist0, min_dist1)

\* DemodulatorQAM<Levels,T>::demodulate_soft: one value per symbol and bit
\* position, symbols outermost
DemodT_demodulate_soft(tab, patterns, symbols, sig) ==
    LET w == Len(patterns[1])
    IN  [n \in 1..(Len(symbols) * w) |->
            LET m == SoftSearch(symbols[((n - 1) \div w) + 1], tab, patterns,
                                ((n - 1) % w) + 1, 1, Infinity, Infinity)
            IN  Llr(m[1], m[2], sig * sig)]

----------------------------------------------------------------------------
(* addNoise *)

\* NoiseAdder::addNoise / NoiseAdder<T>::addNoiseStandard with the drawn
\* samples noise[k] = <<noise_re, noise_im>> of symbol k
\* a channel that returns the batch twice over
addNoise_Repeating(symbols, noise, repr) == symbols \o symbols

addNoise(symbols, noise, repr) ==
    IF symbols = <<>> THEN <<>>
    ELSE [k \in 1..Len(symbols) |->
            <<Store(symbols[k][1] + noise[k][1], repr),
              Store(symbols[k][2] + noise[k][2], repr)>>]

----------------------------------------------------------------------------
(* double: the non-negative values 0 and 2^-8 <= x < 2^11, each the exact    *)
(* number of units of 2^-60 it is, in three limbs <<high, mid, low>> of base *)
(* 2^20, and their IEEE 754 addition with rounding to nearest, ties to even. *)

DLimb == 1048576

\* the limbs of a number of units given with mid or low out of range
DCarry(h, m, l) ==
    LET m2 == m + (l \div DLimb)
    IN  <<h + (m2 \div DLimb), m2 % DLimb, l % DLimb>>

\* x + y without rounding
DAddExact(x, y) == DCarry(x[1] + y[1], x[2] + y[2], x[3] + y[3])

\* x < y
DLess(x, y) ==
    \/ x[1] < y[1]
    \/ x[1] = y[1] /\ x[2] < y[2]
    \/ x[1] = y[1] /\ x[2] = y[2] /\ x[3] < y[3]

\* x <= y
DLeq(x, y) == x = y \/ DLess(x, y)

RECURSIVE FloorLog2(_)
FloorLog2(n) == IF n <= 1 THEN 0 ELSE 1 + FloorLog2(n \div 2)

\* the double nearest to a number of units: its 53-bit significand ends at
\* the bit 2^(e - 52), e the position of the leading bit
DRound(x) ==
    IF x[1] < 4096 THEN x
    ELSE LET ulp == 2 ^ (FloorLog2(x[1]) - 12)
             r == x[3] % ulp
             down == x[3] - r
             up == \/ 2 * r > ulp
                   \/ 2 * r = ulp /\ (down \div ulp) % 2 = 1
         IN  DCarry(x[1], x[2], IF up THEN down + ulp ELSE down)

\* x + y on doubles
DAdd(x, y) == DRound(DAddExact(x, y))

\* the double that a small non-negative int converts to
FromInt(n) == <<n * DLimb, 0, 0>>

\* std::stod of a command-line argument
stod(text) ==
    CASE text = "0" -> FromInt(0)
      [] text = "1" -> FromInt(1)
      [] text = "0.25" -> <<262144, 0, 0>>
      [] text = "0.5" -> <<524288, 0, 0>>
      [] text = "0.1" -> <<104857, 629145, 629152>>
      [] text = "0.8" -> <<838860, 838860, 838912>>

----------------------------------------------------------------------------
(* The codec under test: one modulator, one demodulator and one channel,    *)
(* driven by a caller that builds bit batches and passes them through.      *)

Orders == {4, 16, 64}

\* scale factors, in the representation of T: 1/3 and 1 for float (the
\* modulator tests), 1 and 16384 for int16_t (FixedPointScalingTest)
Scales(repr) == IF repr = "float" THEN {1, ScaleDen} ELSE {1, 16384}

\* ModulatorQAM(levels, scale) with DemodulatorQAM(levels), and
\* ModulatorQAM<Levels,T>(scale) with DemodulatorQAM<Levels,T>(scale)
Configs ==
    [variant : {"runtime"}, levels : Orders, repr : {"float"}, scale : Scales("float")]
    \cup [variant : {"template"}, levels : Orders, repr : {"float"}, scale : Scales("float")]
    \cup [variant : {"template"}, levels : Orders, repr : {"int16"}, scale : Scales("int16")]

BitsPerSymbol(c) == calculate_bits_per_symbol(c.levels)

\* modulate of the configured modulator
modulate(c, tab, bitsIn) ==
    IF c.variant = "runtime"
    THEN Mod_modulate(tab, BitsPerSymbol(c), bitsIn)
    ELSE ModT_modulate(tab, BitsPerSymbol(c), bitsIn)

\* demodulate_hard of the configured demodulator
demodulate_hard(c, tab, patterns, symbols) ==
    IF c.variant = "runtime"
    THEN Demod_demodulate_hard(tab, patterns, symbols)
    ELSE DemodT_demodulate_hard(tab, patterns, symbols)

\* the noise samples the channel may draw for one component: none, or one
\* amplitude step of the modulator in either direction
NoiseVals(c) == {-c.scale, 0, c.scale}

NoisePairs(c) == NoiseVals(c) \X NoiseVals(c)

\* all sequences of length n over S
SeqsOfLen(S, n) == [1..n -> S]

\* the caller appends one bit to the batch it is building
PushBit(b) ==
    /\ pc \in {"idle", "threw"}
    /\ Len(inBits) < MaxBits
    /\ inBits' = Append(inBits, b)
    /\ pc' = "idle"
    /\ UNCHANGED <<cfg, modTab, demTab, bitPatterns, syms, rx, outBits, failedBefore,
                   sigma, llrs>>
    /\ UNCHANGED simVars
    /\ UNCHANGED noiseVars
    /\ UNCHANGED ctor
    /\ UNCHANGED seedVars

\* a call of modulate on the batch
Modulate ==
    /\ pc = "idle"
    /\ LET res == modulate(cfg, modTab, inBits)
       IN  /\ syms' = res.symbols
           /\ pc' = IF res.threw THEN "threw" ELSE "modulated"
           /\ failedBefore' = (failedBefore \/ res.threw)
    /\ UNCHANGED <<cfg, modTab, demTab, bitPatterns, inBits, rx, outBits, sigma, llrs>>
    /\ UNCHANGED simVars
    /\ UNCHANGED noiseVars
    /\ UNCHANGED ctor
    /\ UNCHANGED seedVars

\* a call of addNoise on the modulated batch
AddNoise ==
    /\ pc = "modulated"
    /\ Len(syms) <= MaxNoisySyms
    /\ \E noise \in SeqsOfLen(NoisePairs(cfg), Len(syms)) :
          rx' = addNoise(syms, noise, cfg.repr)
    /\ pc' = "noised"
    /\ UNCHANGED <<cfg, modTab, demTab, bitPatterns, inBits, syms, outBits, failedBefore,
                   sigma, llrs>>
    /\ UNCHANGED simVars
    /\ UNCHANGED noiseVars
    /\ UNCHANGED ctor
    /\ UNCHANGED seedVars

\* a call of demodulate_hard, on the modulated batch or on the noisy one
DemodulateHard ==
    /\ pc \in {"modulated", "noised"}
    /\ LET symbols == IF pc = "modulated" THEN syms ELSE rx
       IN  /\ rx' = symbols
           /\ outBits' = demodulate_hard(cfg, demTab, bitPatterns, symbols)
    /\ pc' = "demodulated"
    /\ UNCHANGED <<cfg, modTab, demTab, bitPatterns, inBits, syms, failedBefore,
                   sigma, llrs>>
    /\ UNCHANGED simVars
    /\ UNCHANGED noiseVars
    /\ UNCHANGED ctor
    /\ UNCHANGED seedVars

\* the largest order whose noisy batches are passed to demodulate_soft (the
\* batches that come straight from modulate are passed for every order)
MaxNoisySoftLevels == 16

\* the values of sigma the caller passes (1.0f is the default argument)
Sigmas == {1, 2}

\* a call of demodulate_soft, which the compile-time-order demodulator has, on
\* the modulated batch or on the noisy one
DemodulateSoft(sig) ==
    /\ cfg.variant = "template"
    /\ pc \in {"modulated", "noised"}
    /\ pc = "noised" => cfg.levels <= MaxNoisySoftLevels
    /\ LET symbols == IF pc = "modulated" THEN syms ELSE rx
       IN  /\ rx' = symbols
           /\ llrs' = DemodT_demodulate_soft(demTab, bitPatterns, symbols, sig)
    /\ sigma' = sig
    /\ pc' = "softDemodulated"
    /\ UNCHANGED <<cfg, modTab, demTab, bitPatterns, inBits, syms, outBits, failedBefore>>
    /\ UNCHANGED simVars
    /\ UNCHANGED noiseVars
    /\ UNCHANGED ctor
    /\ UNCHANGED seedVars

\* the caller drops the batch and starts the next one
NewBatch ==
    /\ pc \in {"threw", "modulated", "noised", "demodulated", "softDemodulated", "tested"}
    /\ inBits' = <<>>
    /\ syms' = <<>>
    /\ rx' = <<>>
    /\ outBits' = <<>>
    /\ llrs' = <<>>
    /\ pc' = "idle"
    /\ UNCHANGED <<cfg, modTab, demTab, bitPatterns, failedBefore, sigma>>
    /\ UNCHANGED simVars
    /\ UNCHANGED noiseVars
    /\ UNCHANGED ctor
    /\ UNCHANGED seedVars

\* the symbols DemodulatorTest.ConstellationMapping feeds, by index
ExpectedSymbols(levels) ==
    CASE levels = 4 -> QpskPoints
      [] levels = 16 ->
            <<(<<-3, -3>>), (<<-3, -1>>), (<<-3, 3>>), (<<-3, 1>>),
              (<<-1, -3>>), (<<-1, -1>>), (<<-1, 3>>), (<<-1, 1>>),
              (<<3, -3>>), (<<3, -1>>), (<<3, 3>>), (<<3, 1>>),
              (<<1, -3>>), (<<1, -1>>), (<<1, 3>>), (<<1, 1>>)>>
      [] levels = 64 ->
            <<(<<-7, -7>>), (<<-7, -5>>), (<<-7, -1>>), (<<-7, -3>>),
              (<<-7, 7>>), (<<-7, 5>>), (<<-7, 1>>), (<<-7, 3>>),
              (<<-5, -7>>), (<<-5, -5>>), (<<-5, -1>>), (<<-5, -3>>),
              (<<-5, 7>>), (<<-5, 5>>), (<<-5, 1>>), (<<-5, 3>>),
              (<<-1, -7>>), (<<-1, -5>>), (<<-1, -1>>), (<<-1, -3>>),
              (<<-1, 7>>), (<<-1, 5>>), (<<-1, 1>>), (<<-1, 3>>),
              (<<-3, -7>>), (<<-3, -5>>), (<<-3, -1>>), (<<-3, -3>>),
              (<<-3, 7>>), (<<-3, 5>>), (<<-3, 1>>), (<<-3, 3>>),
              (<<7, -7>>), (<<7, -5>>), (<<7, -1>>), (<<7, -3>>),
              (<<7, 7>>), (<<7, 5>>), (<<7, 1>>), (<<7, 3>>),
              (<<5, -7>>), (<<5, -5>>), (<<5, -1>>), (<<5, -3>>),
              (<<5, 7>>), (<<5, 5>>), (<<5, 1>>), (<<5, 3>>),
              (<<1, -7>>), (<<1, -5>>), (<<1, -1>>), (<<1, -3>>),
              (<<1, 7>>), (<<1, 5>>), (<<1, 1>>), (<<1, 3>>),
              (<<3, -7>>), (<<3, -5>>), (<<3, -1>>), (<<3, -3>>),
              (<<3, 7>>), (<<3, 5>>), (<<3, 1>>), (<<3, 3>>)>>

\* the test's expected bits of index i: (i >> bit_pos) & 1, bit_pos = bps-1-j
ExpectedBits(i, bps) == [j \in 1..bps |-> LowBits(Shr(i, bps - j), 1)]

\* one round of the test's loop: demodulate_hard({&symbols[i], 1})
TestSymbol(i) ==
    /\ pc = "idle"
    /\ inBits = <<>>
    /\ inBits' = ExpectedBits(i, BitsPerSymbol(cfg))
    /\ rx' = << <<Lit(ExpectedSymbols(cfg.levels)[i + 1][1], cfg.repr),
                  Lit(ExpectedSymbols(cfg.levels)[i + 1][2], cfg.repr)>> >>
    /\ outBits' = demodulate_hard(cfg, demTab, bitPatterns, rx')
    /\ pc' = "tested"
    /\ UNCHANGED <<cfg, modTab, demTab, bitPatterns, syms, failedBefore, sigma, llrs>>
    /\ UNCHANGED simVars
    /\ UNCHANGED noiseVars
    /\ UNCHANGED ctor
    /\ UNCHANGED seedVars

\* no construction under test
\* no spawn loop followed: the seeds' variables at rest
SeedIdle ==
    /\ clock = [wraps |-> 0, low |-> <<0, 0>>]
    /\ seeds = <<>>
    /\ seedWorkers = 0

CtorIdle ==
    ctor = [class |-> "none", variant |-> "none", levels |-> 0, repr |-> "none",
            scale |-> 0, pc |-> "idle", thrown |-> "none", what |-> "",
            bits_per_symbol |-> 0, constellation |-> <<>>, bit_patterns |-> <<>>,
            avg_power |-> [num |-> 0, den |-> 1]]

\* no addNoise call under test: its variables at rest
NoiseIdle ==
    /\ noisePath = "none"
    /\ noiseArgOrder = "none"
    /\ noiseSeed = "none"
    /\ noiseSnrDb = 0
    /\ noiseIn = <<>>
    /\ noisy = <<>>
    /\ noiseDraws = 0
    /\ noiseSigmaSq = [num |-> 0, den |-> 1]
    /\ noisePc = "idle"
    /\ noiseCalls = 0

\* no simulate_mod run: the estimator's variables at rest
SimIdle ==
    /\ params = [modulation_levels |-> 4, snr_start |-> <<0, 0, 0>>,
                 snr_end |-> <<0, 0, 0>>, snr_step |-> <<DLimb, 0, 0>>,
                 num_threads |-> 0, bits_per_thread |-> 0,
                 iterations_per_snr |-> 0]
    /\ noiseless = FALSE
    /\ snr = <<0, 0, 0>>
    /\ snrs = <<>>
    /\ errors = <<>>
    /\ bits = <<>>
    /\ mainPc = "none"
    /\ t_idx = 0
    /\ joinIdx = 0
    /\ reportIdx = 0
    /\ threadPc = <<>>
    /\ threadI = <<>>
    /\ threadIter = <<>>
    /\ threadErr = <<>>
    /\ threadLen = <<>>
    /\ trialErrSum = <<>>
    /\ trialCount = <<>>
    /\ sink = <<>>
    /\ threadHist = <<>>
    /\ threadRx = <<>>
    /\ access = {}

\* a modulator and a demodulator have been constructed
Init ==
    /\ cfg \in Configs
    /\ modTab = BuildModTab(cfg)
    /\ demTab = BuildDemTab(cfg)
    /\ bitPatterns = generateBitPatterns(cfg.levels)
    /\ inBits = <<>>
    /\ syms = <<>>
    /\ rx = <<>>
    /\ outBits = <<>>
    /\ pc = "idle"
    /\ failedBefore = FALSE
    /\ sigma = 1
    /\ llrs = <<>>
    /\ SimIdle
    /\ NoiseIdle
    /\ CtorIdle
    /\ SeedIdle

Next ==
    \/ \E b \in {0, 1} : PushBit(b)
    \/ Modulate
    \/ AddNoise
    \/ DemodulateHard
    \/ \E sig \in Sigmas : DemodulateSoft(sig)
    \/ \E i \in 0..(cfg.levels - 1) : TestSymbol(i)
    \/ NewBatch

Spec == Init /\ [][Next]_vars

----------------------------------------------------------------------------
(* simulate_mod: one run of the estimator for one modulation scheme, as     *)
(* run_all_simulations starts it.                                           *)

\* most worker threads of a run
MaxThreads == 3
\* most iterations per SNR point
MaxIter == 2
\* largest snr_end of the sweeps in whole decibels from 0 on
MaxSnrEnd == 1

\* most trials of a run over a noisy channel whose scheduling is followed to
\* its end
MaxFairTrials == 2

\* the longest SNR list that fits in memory
MaxListLen == 10

\* most trials of a run, over all workers and SNR points
MaxTrials == 4

\* the schemes run
SimOrders == {4, 16, 64}

\* the bits_per_thread asked for on the command line
RequestedBits == {1, 2}

\* a run_all_simulations that passes bits_per_thread on as it is
adjust_bits_Unpadded(bits_per_thread, bits_per_symbol) == bits_per_thread

\* adjust_bits of run_all_simulations
adjust_bits(bits_per_thread, bits_per_symbol) ==
    LET rem == bits_per_thread % bits_per_symbol
    IN  IF rem = 0 THEN bits_per_thread
        ELSE bits_per_thread + (bits_per_symbol - rem)

\* ModulatorQAM mod(modulation_levels); DemodulatorQAM demod(modulation_levels)
RuntimeCfg(levels) ==
    [variant |-> "runtime", levels |-> levels, repr |-> "float",
     scale |-> Lit(1, "float")]

RECURSIVE CountErrors_Matches(_, _, _)
\* the comparison inverted: counts the positions that agree
CountErrors_Matches(b, r, j) ==
    IF j = 0 THEN 0
    ELSE CountErrors_Matches(b, r, j - 1) + (IF b[j] = r[j] THEN 1 ELSE 0)

RECURSIVE CountErrors(_, _, _)
\* the comparison loop over j < b.size(): if (b[j] != r[j]) ++err
CountErrors(b, r, j) ==
    IF j = 0 THEN 0
    ELSE CountErrors(b, r, j - 1) + (IF b[j] # r[j] THEN 1 ELSE 0)

\* ModulatorQAM mod(modulation_levels), shared by the workers
SimMod ==
    [levels \in SimOrders |-> Mod_generateConstellation(levels, Lit(1, "float"))]

\* DemodulatorQAM demod(modulation_levels), shared by the workers
SimDemod ==
    [levels \in SimOrders |->
        [constellation |-> Demod_generateConstellation(levels),
         bit_patterns |-> generateBitPatterns(levels)]]

\* the body of one trial for the generated bits b and the drawn noise:
\* modulate, addNoise, demodulate_hard, compare
\* a worker between trials holds no batch
NoBatches == [s |-> 0, n |-> 0, r |-> 0]

TrialBody(levels, b, noise) ==
    LET s == Mod_modulate(SimMod[levels], calculate_bits_per_symbol(levels), b)
        n == addNoise(s.symbols, noise, "float")
        r == Demod_demodulate_hard(SimDemod[levels].constellation,
                                   SimDemod[levels].bit_patterns, n)
    IN  IF s.threw THEN [threw |-> TRUE, err |-> 0, len |-> Len(b), sizes |-> NoBatches]
        ELSE [threw |-> FALSE, err |-> CountErrors(b, r, Len(b)), len |-> Len(b),
              sizes |-> [s |-> Len(s.symbols), n |-> Len(n), r |-> Len(r)]]

\* the outcomes of a trial of nbits bits (quiet: only zero samples are drawn)
TrialOutcomeSet(levels, nbits, quiet) ==
    {TrialBody(levels, b, noise) :
        b \in SeqsOfLen({0, 1}, nbits),
        noise \in SeqsOfLen(IF quiet THEN {<<0, 0>>}
                            ELSE NoisePairs(RuntimeCfg(levels)),
                            nbits \div calculate_bits_per_symbol(levels))}

\* every outcome a trial can have, by scheme, channel and bits_per_thread
TrialOutcomes ==
    [levels \in SimOrders, quiet \in BOOLEAN |->
        [nbits \in {adjust_bits(q, calculate_bits_per_symbol(levels)) :
                        q \in RequestedBits} |->
            TrialOutcomeSet(levels, nbits, quiet)]]

\* a plain store of the thread's own contribution: earlier updates are lost
AtomicAdd_Lost(old, v) == v

\* errors[i] += v on a std::atomic<uint64_t>: one indivisible read-modify-write
AtomicAdd(old, v) == old + v

\* a join that never returns
ThreadJoinable_Never(t) == FALSE

\* a join that never waits
ThreadJoinable_NoWait(t) == TRUE

\* th.join() returns
ThreadJoinable(t) == threadPc[t] = "done"

\* a worker whose inner loop does not test iter on entry
LoopPc_NoIterTest(i, iter) ==
    IF i < Len(snrs) THEN "trial" ELSE "done"

\* where a worker stands once it has passed its loop tests at (i, iter)
LoopPc(i, iter) ==
    IF i < Len(snrs) /\ iter < params.iterations_per_snr THEN "trial" ELSE "done"

\* CsvWriter::write_header: ofs_ << header << "\n"
write_header(file, header) == Append(file, header)

\* a writer that puts the newest row right after the header
write_row_NewestFirst(file, snr_v, ber) ==
    <<Head(file), [snr |-> snr_v, errors |-> ber.errors, bits |-> ber.bits]>>
        \o Tail(file)

\* CsvWriter::write_row: ofs_ << snr << "," << ber << "\n", ber being the
\* quotient of the two counter values
write_row(file, snr_v, ber) ==
    Append(file, [snr |-> snr_v, errors |-> ber.errors, bits |-> ber.bits])

\* run_all_simulations pads bits_per_thread and calls simulate_mod, which
\* opens the writer and writes the header
StartRun ==
    /\ mainPc = "start"
    /\ params' = [params EXCEPT !.bits_per_thread =
                    adjust_bits(@, calculate_bits_per_symbol(params.modulation_levels))]
    /\ sink' = write_header(sink, "SNR_dB,BER")
    /\ snr' = params.snr_start
    /\ mainPc' = "snrLoop"
    /\ UNCHANGED <<noiseless, snrs, errors, bits, t_idx, joinIdx, reportIdx,
                   threadPc, threadI, threadIter, threadErr, threadLen,
                   trialErrSum, trialCount>>
    /\ UNCHANGED codecVars
    /\ UNCHANGED noiseVars
    /\ UNCHANGED ctor
    /\ UNCHANGED seedVars
    /\ UNCHANGED threadHist
    /\ UNCHANGED threadRx
    /\ UNCHANGED access

\* for (snr = snr_start; snr <= snr_end; snr += snr_step) snrs.push_back(snr)
PushSnr ==
    /\ mainPc = "snrLoop"
    /\ DLeq(snr, params.snr_end)
    /\ Len(snrs) < MaxListLen
    /\ snrs' = Append(snrs, snr)
    /\ snr' = DAdd(snr, params.snr_step)
    /\ UNCHANGED <<params, noiseless, errors, bits, mainPc, t_idx, joinIdx,
                   reportIdx, threadPc, threadI, threadIter, threadErr, threadLen,
                   trialErrSum, trialCount, sink>>
    /\ UNCHANGED codecVars
    /\ UNCHANGED noiseVars
    /\ UNCHANGED ctor
    /\ UNCHANGED seedVars
    /\ UNCHANGED threadHist
    /\ UNCHANGED threadRx
    /\ UNCHANGED access

\* snrs.push_back(snr) on a list that has used up the memory there is: it
\* throws std::bad_alloc, which nothing catches
PushSnrFails ==
    /\ mainPc = "snrLoop"
    /\ DLeq(snr, params.snr_end)
    /\ Len(snrs) >= MaxListLen
    /\ mainPc' = "exhausted"
    /\ UNCHANGED <<params, noiseless, snr, snrs, errors, bits, t_idx, joinIdx,
                   reportIdx, threadPc, threadI, threadIter, threadErr, threadLen,
                   trialErrSum, trialCount, sink>>
    /\ UNCHANGED codecVars
    /\ UNCHANGED noiseVars
    /\ UNCHANGED ctor
    /\ UNCHANGED seedVars
    /\ UNCHANGED threadHist
    /\ UNCHANGED threadRx
    /\ UNCHANGED access

\* the list is complete: zero the counters, construct mod and demod
Prepare ==
    /\ mainPc = "snrLoop"
    /\ ~DLeq(snr, params.snr_end)
    /\ errors' = [i \in 1..Len(snrs) |-> 0]
    /\ bits' = [i \in 1..Len(snrs) |-> 0]
    /\ trialErrSum' = [i \in 1..Len(snrs) |-> 0]
    /\ trialCount' = [i \in 1..Len(snrs) |-> 0]
    /\ cfg' = RuntimeCfg(params.modulation_levels)
    /\ modTab' = BuildModTab(cfg')
    /\ demTab' = BuildDemTab(cfg')
    /\ bitPatterns' = generateBitPatterns(params.modulation_levels)
    /\ t_idx' = 0
    /\ mainPc' = "spawn"
    /\ UNCHANGED <<params, noiseless, snr, snrs, joinIdx, reportIdx, threadPc,
                   threadI, threadIter, threadErr, threadLen, sink>>
    /\ UNCHANGED <<inBits, syms, rx, outBits, pc, failedBefore, sigma, llrs>>
    /\ UNCHANGED noiseVars
    /\ UNCHANGED ctor
    /\ UNCHANGED seedVars
    /\ UNCHANGED threadHist
    /\ UNCHANGED threadRx
    /\ UNCHANGED access

\* one access <<thread, name, index, kind>>: by thread 0, simulate_mod's
\* own, or by worker t >= 1; to the object name[index]; a read, or a write,
\* which stands for every use that changes the object
Access(thread, name, index, kind) == <<thread, name, index, kind>>

\* reads of the objects the lambda captures by reference and only reads
Reads(thread, names) == {Access(thread, nm, 0, "read") : nm \in names}

\* a worker that uses the locals of the first worker
Owner_First(t) == 1

\* the worker whose copy of the lambda body's locals worker t uses: its own
Owner(t) == t

\* uses of locals of the lambda body by worker t
Uses(t, names) == {Access(t, nm, Owner(t), "write") : nm \in names}

\* threads.emplace_back(lambda) and the start of worker t: the condition of
\* the spawn loop, the new std::thread, rng(seed) and the first loop tests
SpawnAccesses(t) ==
    Reads(0, {"p"}) \cup {Access(0, "threads", 0, "write")}
        \cup Uses(t, {"rng"}) \cup Reads(t, {"snrs", "p"})

\* NoiseAdder noise(snrs[i]), generateRandomBits, modulate, addNoise (which
\* advances noise.rng_), demodulate_hard and the comparison loop
TrialAccesses(t) ==
    Reads(t, {"snrs", "p", "mod", "demod"})
        \cup Uses(t, {"rng", "noise", "b", "s", "n", "r"})

\* errors[i] += err
AddErrorsAccesses(t, i) == {Access(t, "errors", i, "write")}

\* bits[i] += b.size(), the end of the trial's locals and the loop tests
AddBitsAccesses(t, i) ==
    {Access(t, "bits", i, "write")}
        \cup Uses(t, {"b", "s", "n", "r", "noise"}) \cup Reads(t, {"snrs", "p"})

\* th.join()
JoinAccesses == {Access(0, "threads", 0, "write")}

\* the result loop's pass for SNR index i
ReportAccesses(i) ==
    {Access(0, "errors", i, "read"), Access(0, "bits", i, "read"),
     Access(0, "snrs", 0, "read"), Access(0, "writer", 0, "write")}

\* threads.emplace_back(lambda): the worker starts and reaches its first trial
Spawn ==
    /\ mainPc = "spawn"
    /\ t_idx < params.num_threads
    /\ threadPc' = Append(threadPc, LoopPc(0, 0))
    /\ threadI' = Append(threadI, 0)
    /\ threadIter' = Append(threadIter, 0)
    /\ threadErr' = Append(threadErr, 0)
    /\ threadLen' = Append(threadLen, 0)
    /\ t_idx' = t_idx + 1
    /\ UNCHANGED <<params, noiseless, snr, snrs, errors, bits, mainPc, joinIdx,
                   reportIdx, trialErrSum, trialCount, sink>>
    /\ UNCHANGED codecVars
    /\ UNCHANGED noiseVars
    /\ UNCHANGED ctor
    /\ UNCHANGED seedVars
    /\ threadHist' = Append(threadHist, <<>>)
    /\ threadRx' = Append(threadRx, NoBatches)
    /\ access' = access \cup SpawnAccesses(t_idx + 1)

\* the spawn loop ends
SpawnDone ==
    /\ mainPc = "spawn"
    /\ t_idx >= params.num_threads
    /\ mainPc' = "join"
    /\ joinIdx' = 0
    /\ UNCHANGED <<params, noiseless, snr, snrs, errors, bits, t_idx, reportIdx,
                   threadPc, threadI, threadIter, threadErr, threadLen,
                   trialErrSum, trialCount, sink>>
    /\ UNCHANGED codecVars
    /\ UNCHANGED noiseVars
    /\ UNCHANGED ctor
    /\ UNCHANGED seedVars
    /\ UNCHANGED threadHist
    /\ UNCHANGED threadRx
    /\ UNCHANGED access

\* one trial of worker t up to the end of its comparison loop
Trial(t) ==
    /\ threadPc[t] = "trial"
    /\ \E o \in TrialOutcomes[params.modulation_levels, noiseless][params.bits_per_thread] :
          IF o.threw
          THEN /\ threadPc' = [threadPc EXCEPT ![t] = "terminated"]
               /\ mainPc' = "terminated"
               /\ UNCHANGED <<threadErr, threadLen, trialErrSum, trialCount,
                              threadRx>>
          ELSE /\ threadErr' = [threadErr EXCEPT ![t] = o.err]
               /\ threadLen' = [threadLen EXCEPT ![t] = o.len]
               /\ threadRx' = [threadRx EXCEPT ![t] = o.sizes]
               /\ trialErrSum' = [trialErrSum EXCEPT ![threadI[t] + 1] = @ + o.err]
               /\ trialCount' = [trialCount EXCEPT ![threadI[t] + 1] = @ + 1]
               /\ threadPc' = [threadPc EXCEPT ![t] = "addErrors"]
               /\ UNCHANGED mainPc
    /\ access' = access \cup TrialAccesses(t)
    /\ UNCHANGED <<params, noiseless, snr, snrs, errors, bits, t_idx, joinIdx,
                   reportIdx, threadI, threadIter, sink>>
    /\ UNCHANGED codecVars
    /\ UNCHANGED noiseVars
    /\ UNCHANGED ctor
    /\ UNCHANGED seedVars
    /\ threadHist' = [threadHist EXCEPT ![t] =
                        Append(@, [kind |-> "started", i |-> threadI[t],
                                   iter |-> threadIter[t]])]

\* errors[i] += err
AddErrors(t) ==
    /\ threadPc[t] = "addErrors"
    /\ mainPc # "terminated"
    /\ errors' = [errors EXCEPT ![threadI[t] + 1] = AtomicAdd(@, threadErr[t])]
    /\ threadPc' = [threadPc EXCEPT ![t] = "addBits"]
    /\ UNCHANGED <<params, noiseless, snr, snrs, bits, mainPc, t_idx, joinIdx,
                   reportIdx, threadI, threadIter, threadErr, threadLen,
                   trialErrSum, trialCount, sink>>
    /\ UNCHANGED codecVars
    /\ UNCHANGED noiseVars
    /\ UNCHANGED ctor
    /\ UNCHANGED seedVars
    /\ UNCHANGED threadHist
    /\ UNCHANGED threadRx
    /\ access' = access \cup AddErrorsAccesses(t, threadI[t])

\* bits[i] += b.size(); the trial's locals end; ++iter and the loop tests
AddBits(t) ==
    /\ threadPc[t] = "addBits"
    /\ mainPc # "terminated"
    /\ bits' = [bits EXCEPT ![threadI[t] + 1] = AtomicAdd(@, threadLen[t])]
    /\ LET more == threadIter[t] + 1 < params.iterations_per_snr
           i == IF more THEN threadI[t] ELSE threadI[t] + 1
           iter == IF more THEN threadIter[t] + 1 ELSE 0
       IN  /\ threadI' = [threadI EXCEPT ![t] = i]
           /\ threadIter' = [threadIter EXCEPT ![t] = iter]
           /\ threadPc' = [threadPc EXCEPT ![t] = LoopPc(i, iter)]
    /\ threadErr' = [threadErr EXCEPT ![t] = 0]
    /\ threadLen' = [threadLen EXCEPT ![t] = 0]
    /\ threadRx' = [threadRx EXCEPT ![t] = NoBatches]
    /\ access' = access \cup AddBitsAccesses(t, threadI[t])
    /\ UNCHANGED <<params, noiseless, snr, snrs, errors, mainPc, t_idx, joinIdx,
                   reportIdx, trialErrSum, trialCount, sink>>
    /\ UNCHANGED codecVars
    /\ UNCHANGED noiseVars
    /\ UNCHANGED ctor
    /\ UNCHANGED seedVars
    /\ threadHist' = [threadHist EXCEPT ![t] =
                        Append(@, [kind |-> "counted", i |-> threadI[t],
                                   iter |-> threadIter[t]])]

\* th.join() of the next thread returns
Join ==
    /\ mainPc = "join"
    /\ joinIdx < Len(threadPc)
    /\ ThreadJoinable(joinIdx + 1)
    /\ joinIdx' = joinIdx + 1
    /\ UNCHANGED <<params, noiseless, snr, snrs, errors, bits, mainPc, t_idx,
                   reportIdx, threadPc, threadI, threadIter, threadErr, threadLen,
                   trialErrSum, trialCount, sink>>
    /\ UNCHANGED codecVars
    /\ UNCHANGED noiseVars
    /\ UNCHANGED ctor
    /\ UNCHANGED seedVars
    /\ UNCHANGED threadHist
    /\ UNCHANGED threadRx
    /\ access' = access \cup JoinAccesses

\* the join loop ends
JoinDone ==
    /\ mainPc = "join"
    /\ joinIdx >= Len(threadPc)
    /\ mainPc' = "report"
    /\ reportIdx' = 0
    /\ UNCHANGED <<params, noiseless, snr, snrs, errors, bits, t_idx, joinIdx,
                   threadPc, threadI, threadIter, threadErr, threadLen,
                   trialErrSum, trialCount, sink>>
    /\ UNCHANGED codecVars
    /\ UNCHANGED noiseVars
    /\ UNCHANGED ctor
    /\ UNCHANGED seedVars
    /\ UNCHANGED threadHist
    /\ UNCHANGED threadRx
    /\ UNCHANGED access

\* ber = errors[i] / bits[i]; writer.write_row(snrs[i], ber): the row keeps the
\* two counter values read, ber being their quotient
Report ==
    /\ mainPc = "report"
    /\ reportIdx < Len(snrs)
    /\ sink' = write_row(sink, snrs[reportIdx + 1],
                          [errors |-> errors[reportIdx + 1],
                           bits |-> bits[reportIdx + 1]])
    /\ reportIdx' = reportIdx + 1
    /\ UNCHANGED <<params, noiseless, snr, snrs, errors, bits, mainPc, t_idx,
                   joinIdx, threadPc, threadI, threadIter, threadErr, threadLen,
                   trialErrSum, trialCount>>
    /\ UNCHANGED codecVars
    /\ UNCHANGED noiseVars
    /\ UNCHANGED ctor
    /\ UNCHANGED seedVars
    /\ UNCHANGED threadHist
    /\ UNCHANGED threadRx
    /\ access' = access \cup ReportAccesses(reportIdx)

\* the result loop ends and simulate_mod returns
ReportDone ==
    /\ mainPc = "report"
    /\ reportIdx >= Len(snrs)
    /\ mainPc' = "done"
    /\ UNCHANGED <<params, noiseless, snr, snrs, errors, bits, t_idx, joinIdx,
                   reportIdx, threadPc, threadI, threadIter, threadErr, threadLen,
                   trialErrSum, trialCount, sink>>
    /\ UNCHANGED codecVars
    /\ UNCHANGED noiseVars
    /\ UNCHANGED ctor
    /\ UNCHANGED seedVars
    /\ UNCHANGED threadHist
    /\ UNCHANGED threadRx
    /\ UNCHANGED access

\* the sweeps <<snr_start, snr_end, snr_step>> asked for on the command line:
\* whole decibels from 0 on, an empty sweep, a step of zero, and steps of 0.25
\* and 0.1
Sweeps ==
    {<<stod("0"), FromInt(e), stod("1")>> : e \in 0..MaxSnrEnd}
    \cup {<<stod("1"), stod("0"), stod("1")>>,
          <<stod("0"), stod("1"), stod("0")>>,
          <<stod("0"), stod("0.5"), stod("0.25")>>,
          <<stod("0"), stod("0.8"), stod("0.1")>>,
          <<stod("0.1"), stod("0.5"), stod("0.1")>>}

RECURSIVE SnrList(_, _, _, _)
\* the list that the loop over snr builds, from snr on
SnrList(snr_v, snr_end, snr_step, list) ==
    IF DLeq(snr_v, snr_end) /\ Len(list) < MaxListLen
    THEN SnrList(DAdd(snr_v, snr_step), snr_end, snr_step, Append(list, snr_v))
    ELSE list

\* run_all_simulations is about to run one scheme with parsed parameters
SimInit ==
    /\ \E sweep \in Sweeps :
          params \in [modulation_levels : SimOrders,
                      snr_start : {sweep[1]},
                      snr_end : {sweep[2]},
                      snr_step : {sweep[3]},
                      num_threads : 0..MaxThreads,
                      bits_per_thread : RequestedBits,
                      iterations_per_snr : 0..MaxIter]
    /\ params.num_threads * params.iterations_per_snr
            * Len(SnrList(params.snr_start, params.snr_end, params.snr_step, <<>>))
          <= MaxTrials
    /\ noiseless \in BOOLEAN
    /\ snr = <<0, 0, 0>>
    /\ snrs = <<>>
    /\ errors = <<>>
    /\ bits = <<>>
    /\ mainPc = "start"
    /\ t_idx = 0
    /\ joinIdx = 0
    /\ reportIdx = 0
    /\ threadPc = <<>>
    /\ threadI = <<>>
    /\ threadIter = <<>>
    /\ threadErr = <<>>
    /\ threadLen = <<>>
    /\ trialErrSum = <<>>
    /\ trialCount = <<>>
    /\ sink = <<>>
    /\ threadHist = <<>>
    /\ threadRx = <<>>
    /\ access = {}
    /\ cfg = RuntimeCfg(params.modulation_levels)
    /\ modTab = <<>>
    /\ demTab = <<>>
    /\ bitPatterns = <<>>
    /\ inBits = <<>>
    /\ syms = <<>>
    /\ rx = <<>>
    /\ outBits = <<>>
    /\ pc = "idle"
    /\ failedBefore = FALSE
    /\ sigma = 1
    /\ llrs = <<>>
    /\ NoiseIdle
    /\ CtorIdle
    /\ SeedIdle

SimNext ==
    \/ StartRun
    \/ PushSnr
    \/ PushSnrFails
    \/ Prepare
    \/ Spawn
    \/ SpawnDone
    \/ \E t \in 1..Len(threadPc) : Trial(t)
    \/ \E t \in 1..Len(threadPc) : AddErrors(t)
    \/ \E t \in 1..Len(threadPc) : AddBits(t)
    \/ Join
    \/ JoinDone
    \/ Report
    \/ ReportDone

SimSpec == SimInit /\ [][SimNext]_vars

\* the steps of simulate_mod's own thread
MainStep ==
    \/ StartRun
    \/ PushSnr
    \/ PushSnrFails
    \/ Prepare
    \/ Spawn
    \/ SpawnDone
    \/ Join
    \/ JoinDone
    \/ Report
    \/ ReportDone

\* the steps of worker t, once it has been started
WorkerStep(t) ==
    /\ t <= Len(threadPc)
    /\ Trial(t) \/ AddErrors(t) \/ AddBits(t)

\* the runs over a noiseless channel, and the runs of at most MaxFairTrials
\* trials over a noisy one
SimFairInit ==
    /\ SimInit
    /\ \/ noiseless
       \/ params.num_threads * params.iterations_per_snr
              * Len(SnrList(params.snr_start, params.snr_end, params.snr_step, <<>>))
            <= MaxFairTrials

\* simulate_mod under a scheduler that lets every std::thread that can take
\* a step take one sooner or later
SimFairSpec ==
    /\ SimFairInit
    /\ [][SimNext]_vars
    /\ WF_vars(MainStep)
    /\ \A t \in 1..MaxThreads : WF_vars(WorkerStep(t))

----------------------------------------------------------------------------
(* addNoise on its own: calls of one of its bodies on a batch, with the     *)
(* random engine a fixed stream of samples chosen by its seed.  T is float. *)

\* most addNoise calls made on one NoiseAdder
MaxNoiseCalls == 2

\* longest batch passed to addNoise
MaxBatch == 9

\* the lanes of an AVX register of floats
Lanes == 8

\* the bodies: NoiseAdder::addNoise (noise.hpp), NoiseAdder<T>::addNoiseStandard,
\* and the two versions of NoiseAdder<T>::addNoiseSIMD (array of pairs, as in
\* noise_impl.hpp, and separate real and imaginary arrays)
NoisePaths == {"runtime", "standard", "standard_mt", "simd_pairs", "simd_arrays"}

\* the seeds of the random engine
Seeds == {"zero", "ramp", "alt"}

\* the n-th value that dist(rng) returns after seeding, n = 1, 2, ...
Sample(seed, n) ==
    CASE seed = "zero" -> 0
      [] seed = "ramp" -> n
      [] seed = "alt" -> IF n % 2 = 1 THEN ScaleDen ELSE -ScaleDen

\* the SNR values, in dB, of the adders under test
SnrDbs == {-10, 0, 10, 20}

\* a / b on fractions
FracDiv(a, b) == [num |-> a.num * b.den, den |-> a.den * b.num]

RECURSIVE SumPower(_, _)
\* the loop signal_power += re * re + im * im over the first k symbols, in
\* squared units of the representation
SumPower(symbols, k) ==
    IF k = 0 THEN 0
    ELSE SumPower(symbols, k - 1)
            + (symbols[k][1] * symbols[k][1]) + (symbols[k][2] * symbols[k][2])

\* the sum of the squared magnitudes, not divided by the batch size
signal_power_Sum(symbols) ==
    [num |-> SumPower(symbols, Len(symbols)), den |-> ScaleDen * ScaleDen]

\* signal_power after signal_power /= symbols.size()
signal_power(symbols) ==
    FracDiv([num |-> SumPower(symbols, Len(symbols)), den |-> ScaleDen * ScaleDen],
            [num |-> Len(symbols), den |-> 1])

\* snr_linear = std::pow(10.0, snr_db_ / 10.0)
snr_linear(snr_db) ==
    CASE snr_db = -10 -> [num |-> 1, den |-> 10]
      [] snr_db = 0 -> [num |-> 1, den |-> 1]
      [] snr_db = 10 -> [num |-> 10, den |-> 1]
      [] snr_db = 20 -> [num |-> 100, den |-> 1]

\* noise_power = signal_power / snr_linear
noise_power(symbols, snr_db) == FracDiv(signal_power(symbols), snr_linear(snr_db))

\* the square of sigma = std::sqrt(noise_power / 2.0)
sigma_squared(symbols, snr_db) ==
    FracDiv(noise_power(symbols, snr_db), [num |-> 2, den |-> 1])

\* the scalar loop from symbol `from` on, `base` samples having been drawn:
\* noise_re = dist(rng); noise_im = dist(rng); noisy[i] = symbols[i] + noise
ScalarLoop(symbols, out, from, seed, base) ==
    [k \in 1..Len(symbols) |->
        IF k < from THEN out[k]
        ELSE <<symbols[k][1] + Sample(seed, base + (2 * (k - from)) + 1),
               symbols[k][2] + Sample(seed, base + (2 * (k - from)) + 2)>>]

\* std::pmr::vector<std::pair<T, T>> noisy(symbols.size(), alloc_)
ZeroPairs(n) == [k \in 1..n |-> <<0, 0>>]

\* NoiseAdder<T>::addNoiseStandard
addNoiseStandard(symbols, seed) ==
    IF symbols = <<>> THEN <<>>
    ELSE ScalarLoop(symbols, ZeroPairs(Len(symbols)), 1, seed, 0)

\* a vector of pairs as the floats it is in memory: first, second, first, ...
Flat(pairs) == [n \in 0..((2 * Len(pairs)) - 1) |-> pairs[(n \div 2) + 1][(n % 2) + 1]]

\* the vector of pairs that the floats are
Pairs(flat, n) == [k \in 1..n |-> <<flat[2 * (k - 1)], flat[(2 * (k - 1)) + 1]>>]

\* _mm256_set_ps(dist(rng), ..., dist(rng)) after `base` draws: the first
\* argument is the highest lane, and the arguments are evaluated left to right
\* ("ltr") or right to left ("rtl")
SetPs(seed, base, order) ==
    [lane \in 0..(Lanes - 1) |->
        IF order = "ltr" THEN Sample(seed, base + (Lanes - lane))
        ELSE Sample(seed, base + lane + 1)]

\* _mm256_loadu_ps(&mem[at])
LoadPs(mem, at) == [lane \in 0..(Lanes - 1) |-> mem[at + lane]]

\* _mm256_add_ps(a, b)
AddPs(a, b) == [lane \in 0..(Lanes - 1) |-> a[lane] + b[lane]]

\* _mm256_storeu_ps(&mem[at], v)
StorePs(mem, at, v) ==
    [n \in DOMAIN mem |-> IF at <= n /\ n < at + Lanes THEN v[n - at] ELSE mem[n]]

RECURSIVE SimdPairsLoop(_, _, _, _, _)
\* the vector loop of addNoiseSIMD over the array of pairs, from symbol index
\* i (0-based) on: the loads start at &symbols[i].first and &symbols[i].second,
\* the stores at &noisy[i].first and &noisy[i].second
SimdPairsLoop(symbols, out, i, seed, order) ==
    IF i + Lanes > Len(symbols) THEN out
    ELSE LET noise_re == SetPs(seed, 2 * i, order)
             noise_im == SetPs(seed, (2 * i) + Lanes, order)
             re == AddPs(LoadPs(Flat(symbols), 2 * i), noise_re)
             im == AddPs(LoadPs(Flat(symbols), (2 * i) + 1), noise_im)
             stored == StorePs(StorePs(Flat(out), 2 * i, re), (2 * i) + 1, im)
         IN  SimdPairsLoop(symbols, Pairs(stored, Len(symbols)), i + Lanes, seed, order)

\* NoiseAdder<T>::addNoiseSIMD of noise_impl.hpp
addNoiseSIMD_pairs(symbols, seed, order) ==
    IF symbols = <<>> THEN <<>>
    ELSE LET n == Len(symbols)
             done == n - (n % Lanes)
         IN  ScalarLoop(symbols,
                        SimdPairsLoop(symbols, ZeroPairs(n), 0, seed, order),
                        done + 1, seed, 2 * done)

RECURSIVE SimdArraysLoop(_, _, _, _)
\* the vector loop of addNoiseSIMD over the arrays real and imag, from index i
\* on: noise_re[j] = dist(rng); noise_im[j] = dist(rng) for j = 0..7, then
\* the loads, the additions and the stores at &real[i] and &imag[i]
SimdArraysLoop(real, imag, i, seed) ==
    IF i + Lanes > Len(real) THEN <<real, imag>>
    ELSE LET noise_re == [lane \in 0..(Lanes - 1) |-> Sample(seed, (2 * i) + (2 * lane) + 1)]
             noise_im == [lane \in 0..(Lanes - 1) |-> Sample(seed, (2 * i) + (2 * lane) + 2)]
             re == [k \in 1..Len(real) |->
                      IF i < k /\ k <= i + Lanes THEN real[k] + noise_re[k - i - 1]
                      ELSE real[k]]
             im == [k \in 1..Len(imag) |->
                      IF i < k /\ k <= i + Lanes THEN imag[k] + noise_im[k - i - 1]
                      ELSE imag[k]]
         IN  SimdArraysLoop(re, im, i + Lanes, seed)

\* NoiseAdder<T>::addNoiseSIMD with separate arrays
addNoiseSIMD_arrays(symbols, seed) ==
    IF symbols = <<>> THEN <<>>
    ELSE LET n == Len(symbols)
             done == n - (n % Lanes)
             v == SimdArraysLoop([k \in 1..n |-> symbols[k][1]],
                                 [k \in 1..n |-> symbols[k][2]], 0, seed)
         IN  [k \in 1..n |->
                IF k <= done THEN <<v[1][k], v[2][k]>>
                ELSE <<v[1][k] + Sample(seed, (2 * done) + (2 * (k - done - 1)) + 1),
                       v[2][k] + Sample(seed, (2 * done) + (2 * (k - done - 1)) + 2)>>]

\* the body that the adder under test runs
addNoiseBody(path, symbols, seed, drawn, order) ==
    CASE path = "runtime" ->
            addNoise(symbols,
                     [k \in 1..Len(symbols) |->
                        <<Sample(seed, drawn + (2 * k) - 1),
                          Sample(seed, drawn + (2 * k))>>],
                     "float")
      [] path = "standard" -> addNoiseStandard(symbols, seed)
      [] path = "standard_mt" -> addNoiseStandard(symbols, seed)
      [] path = "simd_pairs" -> addNoiseSIMD_pairs(symbols, seed, order)
      [] path = "simd_arrays" -> addNoiseSIMD_arrays(symbols, seed)

\* the batches passed: n symbols of the unit-scale table of an order, in
\* index order from an offset on
NoiseBatch(levels, off, n) ==
    [k \in 1..n |-> SimMod[levels][((k - 1 + off) % levels) + 1]]

\* std::mt19937{}(): the first output of a default-constructed engine, the
\* same value whenever it is computed
DefaultMtOutput == "ramp"

\* what a call may seed the engine it draws from with: the runtime class
\* draws from rng_, seeded when the NoiseAdder was constructed; the other
\* bodies construct an engine of their own, from std::random_device{}() or
\* from std::mt19937{}()
CallSeeds(path, ctorSeed) ==
    CASE path = "runtime" -> {ctorSeed}
      [] path = "standard_mt" -> {DefaultMtOutput}
      [] OTHER -> Seeds

\* the number of draws already made on the engine a call draws from
DrawnBefore(path, drawn) == IF path = "runtime" THEN drawn ELSE 0

\* a call of addNoise on the batch, as a whole: the first, or a further one
\* on the same NoiseAdder and batch
CallAddNoise ==
    /\ noisePc \in {"called", "returned"}
    /\ noiseCalls < MaxNoiseCalls
    /\ \E sd \in CallSeeds(noisePath, noiseSeed) :
          /\ noiseSeed' = sd
          /\ noisy' = addNoiseBody(noisePath, noiseIn, sd,
                                   DrawnBefore(noisePath, noiseDraws), noiseArgOrder)
    /\ noiseDraws' = DrawnBefore(noisePath, noiseDraws) + 2 * Len(noiseIn)
    /\ noiseSigmaSq' = IF noiseIn = <<>> THEN noiseSigmaSq
                       ELSE sigma_squared(noiseIn, noiseSnrDb)
    /\ noisePc' = "returned"
    /\ noiseCalls' = noiseCalls + 1
    /\ UNCHANGED <<noisePath, noiseArgOrder, noiseSnrDb, noiseIn>>
    /\ UNCHANGED codecVars
    /\ UNCHANGED simVars
    /\ UNCHANGED ctor
    /\ UNCHANGED seedVars

\* a NoiseAdder has been constructed and is about to be passed a batch
NoiseInit ==
    /\ noisePath \in NoisePaths
    /\ noiseArgOrder \in {"ltr", "rtl"}
    /\ noiseSeed \in (IF noisePath = "runtime" THEN Seeds ELSE {"none"})
    /\ noiseSnrDb \in SnrDbs
    /\ noiseIn \in {NoiseBatch(levels, off, n) :
                        levels \in {4, 16}, off \in {0, 3}, n \in 0..MaxBatch}
    /\ noisy = <<>>
    /\ noiseDraws = 0
    /\ noiseSigmaSq = [num |-> 0, den |-> 1]
    /\ noisePc = "called"
    /\ noiseCalls = 0
    /\ cfg = RuntimeCfg(4)
    /\ modTab = <<>>
    /\ demTab = <<>>
    /\ bitPatterns = <<>>
    /\ inBits = <<>>
    /\ syms = <<>>
    /\ rx = <<>>
    /\ outBits = <<>>
    /\ pc = "idle"
    /\ failedBefore = FALSE
    /\ sigma = 1
    /\ llrs = <<>>
    /\ SimIdle
    /\ CtorIdle
    /\ SeedIdle

NoiseNext == CallAddNoise

NoiseSpec == NoiseInit /\ [][NoiseNext]_vars

----------------------------------------------------------------------------
(* Construction on its own: the constructors of the runtime-order classes   *)
(* and of the compile-time classes, step by step.                           *)

\* the levels that callers pass to the runtime-order constructors
CtorLevels == {-4, 0, 1, 2, 4, 8, 16, 32, 64, 128}

\* the representations T of the compile-time classes
Reprs == {"float", "int16", "int32"}

\* the scale factors passed at construction, in the representation
CtorScales(repr) ==
    CASE repr = "float" -> {1, ScaleDen}
      [] repr = "int16" -> {1, 16384}
      [] repr = "int32" -> {1, 100}

\* calculate_bits_per_symbol ends in throw std::logic_error
calculate_bits_per_symbol_Throws(levels) == levels \notin {4, 16, 64}

\* the constructor body's test of levels_count_
UnsupportedLevels(levels) == levels # 4 /\ levels # 16 /\ levels # 64

\* a / b on ints
DivTrunc(a, b) == IF a >= 0 THEN a \div b ELSE -((-a) \div b)

RECURSIVE AccumulatePower(_, _, _, _)
\* avg_power_ += re * re + im * im from point k on, avg_power_ being acc: in
\* float the sum in squared units, in a fixed-point T the int sum stored into
\* T at every step
AccumulatePower(tab, k, repr, acc) ==
    IF k > Len(tab) THEN acc
    ELSE LET sum == Store(acc + (tab[k][1] * tab[k][1]) + (tab[k][2] * tab[k][2]),
                          repr)
         IN  IF sum \in Int THEN AccumulatePower(tab, k + 1, repr, sum) ELSE sum

\* avg_power_ of ModulatorQAM after generateConstellation
Mod_avg_power(tab, levels) ==
    IF levels > 0
    THEN [num |-> AccumulatePower(tab, 1, "float", 0),
          den |-> ScaleDen * ScaleDen * levels]
    ELSE [num |-> 0, den |-> 1]

\* avg_power_ of ModulatorQAM<Levels,T> after generateConstellation
ModT_avg_power(tab, levels, repr) ==
    IF repr = "float"
    THEN [num |-> AccumulatePower(tab, 1, "float", 0),
          den |-> ScaleDen * ScaleDen * levels]
    ELSE [num |-> Store(DivTrunc(AccumulatePower(tab, 1, repr, 0), levels), repr),
          den |-> 1]

\* the construction requests
CtorRequests ==
    [class : {"ModulatorQAM"}, variant : {"runtime"}, levels : CtorLevels,
     repr : {"float"}, scale : CtorScales("float")]
    \cup [class : {"DemodulatorQAM"}, variant : {"runtime"}, levels : CtorLevels,
          repr : {"float"}, scale : {ScaleDen}]
    \cup UNION {[class : {"ModulatorQAM", "DemodulatorQAM"}, variant : {"template"},
                 levels : Orders, repr : {r}, scale : CtorScales(r)] : r \in Reprs}

\* the member initializers: levels_count_(levels_in),
\* bits_per_symbol_(calculate_bits_per_symbol(levels_in)), scale_factor_;
\* BitsPerSymbol of the compile-time classes is a constant of the class
CtorInitMembers ==
    /\ ctor.pc = "entered"
    /\ IF ctor.variant = "runtime" /\ calculate_bits_per_symbol_Throws(ctor.levels)
       THEN ctor' = [ctor EXCEPT !.pc = "failed",
                                 !.thrown = "std::logic_error",
                                 !.what = "Invalid levels value for BitsPerSymbol calculation"]
       ELSE ctor' = [ctor EXCEPT !.pc = "body",
                                 !.bits_per_symbol = calculate_bits_per_symbol(ctor.levels)]
    /\ UNCHANGED codecVars
    /\ UNCHANGED simVars
    /\ UNCHANGED seedVars
    /\ UNCHANGED noiseVars

\* the constructor body's check: if (levels_count_ != 4 && ...) throw; the
\* static_assert of the compile-time classes has passed at compile time
CtorCheckLevels ==
    /\ ctor.pc = "body"
    /\ IF ctor.variant = "runtime" /\ UnsupportedLevels(ctor.levels)
       THEN ctor' = [ctor EXCEPT !.pc = "failed",
                                 !.thrown = "std::invalid_argument",
                                 !.what = ctor.class
                                    \o ": Only 4, 16, and 64 QAM levels are supported"]
       ELSE ctor' = [ctor EXCEPT !.pc = "generate"]
    /\ UNCHANGED codecVars
    /\ UNCHANGED simVars
    /\ UNCHANGED seedVars
    /\ UNCHANGED noiseVars

\* generateConstellation(), and generateBitPatterns() in a demodulator
CtorGenerate ==
    /\ ctor.pc = "generate"
    /\ LET c == [variant |-> ctor.variant, levels |-> ctor.levels,
                 repr |-> ctor.repr, scale |-> ctor.scale]
       IN  IF ctor.class = "ModulatorQAM"
           THEN ctor' = [ctor EXCEPT
                           !.pc = "constructed",
                           !.constellation = BuildModTab(c),
                           !.avg_power =
                               IF ctor.variant = "runtime"
                               THEN Mod_avg_power(BuildModTab(c), ctor.levels)
                               ELSE ModT_avg_power(BuildModTab(c), ctor.levels, ctor.repr)]
           ELSE ctor' = [ctor EXCEPT
                           !.pc = "constructed",
                           !.constellation = BuildDemTab(c),
                           !.bit_patterns = generateBitPatterns(ctor.levels)]
    /\ UNCHANGED codecVars
    /\ UNCHANGED simVars
    /\ UNCHANGED seedVars
    /\ UNCHANGED noiseVars

\* a constructor has been entered
CtorInit ==
    /\ \E r \in CtorRequests :
          ctor = [class |-> r.class, variant |-> r.variant, levels |-> r.levels,
                  repr |-> r.repr, scale |-> r.scale, pc |-> "entered",
                  thrown |-> "none", what |-> "", bits_per_symbol |-> 0,
                  constellation |-> <<>>, bit_patterns |-> <<>>,
                  avg_power |-> [num |-> 0, den |-> 1]]
    /\ cfg = RuntimeCfg(4)
    /\ modTab = <<>>
    /\ demTab = <<>>
    /\ bitPatterns = <<>>
    /\ inBits = <<>>
    /\ syms = <<>>
    /\ rx = <<>>
    /\ outBits = <<>>
    /\ pc = "idle"
    /\ failedBefore = FALSE
    /\ sigma = 1
    /\ llrs = <<>>
    /\ SimIdle
    /\ SeedIdle
    /\ noisePath = "none"
    /\ noiseArgOrder = "none"
    /\ noiseSeed = "none"
    /\ noiseSnrDb = 0
    /\ noiseIn = <<>>
    /\ noisy = <<>>
    /\ noiseDraws = 0
    /\ noiseSigmaSq = [num |-> 0, den |-> 1]
    /\ noisePc = "idle"
    /\ noiseCalls = 0

CtorNext == CtorInitMembers \/ CtorCheckLevels \/ CtorGenerate

CtorSpec == CtorInit /\ [][CtorNext]_vars

----------------------------------------------------------------------------
(* The seeds of the workers' generators: the spawn loop of simulate_mod on  *)
(* its own, reading the clock once per worker.  The clock's count is a      *)
(* 64-bit integer; it is held as [wraps, low], the count being              *)
(* wraps * 2^32 + low, and low as two limbs <<high, low>> of 16 bits.       *)

\* most workers whose seeds are followed
MaxSeedWorkers == 3

\* the base of a limb of an unsigned
ULimb == 65536

\* a + b in unsigned arithmetic: the sum modulo 2^32
U32Add(a, b) ==
    LET lo == a[2] + b[2]
        hi == a[1] + b[1] + (lo \div ULimb)
    IN  <<hi % ULimb, lo % ULimb>>

\* static_cast<unsigned>(count): the low 32 bits of the count
ToUnsigned(c) == c.low

\* the clock's count, d ticks after count c
ClockPlus(c, d) ==
    LET lo == c.low[2] + d.low[2]
        hi == c.low[1] + d.low[1] + (lo \div ULimb)
    IN  [wraps |-> c.wraps + d.wraps + (hi \div ULimb),
         low |-> <<hi % ULimb, lo % ULimb>>]

\* the counts the clock may show when simulate_mod reaches the spawn loop
ClockStarts ==
    {[wraps |-> 0, low |-> <<0, 0>>],
     [wraps |-> 389, low |-> <<12345, 54321>>],
     [wraps |-> 389, low |-> <<ULimb - 1, ULimb - 1>>]}

\* the ticks that may pass between two readings: none, one, and 2^32 - 2,
\* 2^32 - 1 and 2^32 of them (the thread was held up for some seconds)
ClockAdvances ==
    {[wraps |-> 0, low |-> <<0, 0>>],
     [wraps |-> 0, low |-> <<0, 1>>],
     [wraps |-> 0, low |-> <<ULimb - 1, ULimb - 2>>],
     [wraps |-> 0, low |-> <<ULimb - 1, ULimb - 1>>],
     [wraps |-> 1, low |-> <<0, 0>>]}

\* unsigned seed = static_cast<unsigned>(now().time_since_epoch().count()) + t_idx
Seed(c, t_i) == U32Add(ToUnsigned(c), <<0, t_i>>)

\* one pass of the spawn loop: the clock is read and worker t_idx gets its seed
ComputeSeed ==
    /\ Len(seeds) < seedWorkers
    /\ \E d \in ClockAdvances :
          /\ clock' = ClockPlus(clock, d)
          /\ seeds' = Append(seeds, Seed(clock', Len(seeds)))
    /\ UNCHANGED seedWorkers
    /\ UNCHANGED codecVars
    /\ UNCHANGED simVars
    /\ UNCHANGED noiseVars
    /\ UNCHANGED ctor

SeedInit ==
    /\ clock \in ClockStarts
    /\ seeds = <<>>
    /\ seedWorkers \in 0..MaxSeedWorkers
    /\ cfg = RuntimeCfg(4)
    /\ modTab = <<>>
    /\ demTab = <<>>
    /\ bitPatterns = <<>>
    /\ inBits = <<>>
    /\ syms = <<>>
    /\ rx = <<>>
    /\ outBits = <<>>
    /\ pc = "idle"
    /\ failedBefore = FALSE
    /\ sigma = 1
    /\ llrs = <<>>
    /\ SimIdle
    /\ NoiseIdle
    /\ CtorIdle

SeedNext == ComputeSeed

SeedSpec == SeedInit /\ [][SeedNext]_vars

----------------------------------------------------------------------------
(* Properties of the codec, checked under Spec *)

bps == BitsPerSymbol(cfg)

RECURSIVE GroupValue(_, _, _, _)
\* the number whose binary representation, most-significant bit first, is the
\* k-th group of width w of the bit sequence b: the sum of b[..+j] * 2^(w-j)
GroupValue(b, k, w, j) ==
    IF j = 0 THEN 0
    ELSE GroupValue(b, k, w, j - 1) + (b[((k - 1) * w) + j] * (2 ^ (w - j)))

\* p < q on exact squared distances
WideLess(p, q) == p[1] < q[1] \/ (p[1] = q[1] /\ p[2] < q[2])

\* the modulator and the demodulator were given the same scale factor (the
\* runtime demodulator takes none: its points are at unit scale)
SameScale == cfg.variant = "template" \/ cfg.scale = Lit(1, "float")

\* the bits that went into modulate came back from demodulate_hard with no
\* noise in between
NoiselessRoundTrip == pc = "demodulated" /\ rx = syms

(* C1: for a modulator and a demodulator of the same order and scale factor *)
(* and every bit batch of valid length, demodulate_hard(modulate(b)) = b,   *)
(* for the runtime-order and for the compile-time-order codec.              *)
C1_RoundTrip ==
    (NoiselessRoundTrip /\ SameScale) => outBits = inBits

(* C5: modulate throws exactly when the batch length is no multiple of      *)
(* bitsPerSymbol, then returns no symbols, and a later call on a valid      *)
(* batch returns what a modulator that never failed returns.                *)
C5_InvalidBitCount ==
    /\ pc = "threw" => (Len(inBits) % bps # 0 /\ syms = <<>>)
    /\ pc = "modulated" =>
          /\ Len(inBits) % bps = 0
          /\ syms = modulate(cfg, BuildModTab(cfg), inBits).symbols
          /\ Len(syms) * bps = Len(inBits)

C5_Witness == failedBefore /\ pc = "modulated" /\ Len(syms) >= 1

(* C6: the empty batch is never an error: modulate, addNoise and            *)
(* demodulate_hard return the empty batch for it.                           *)
C6_EmptyInput ==
    /\ (pc \in {"threw", "modulated"} /\ inBits = <<>>) =>
          (pc = "modulated" /\ syms = <<>>)
    /\ (pc = "noised" /\ syms = <<>>) => rx = <<>>
    /\ (pc = "demodulated" /\ rx = <<>>) => outBits = <<>>

C6_Witness ==
    pc = "demodulated" /\ inBits = <<>> /\ syms = <<>> /\ rx = <<>> /\ outBits = <<>>

(* C7: modulate of n * bitsPerSymbol bits returns n symbols, and symbol k   *)
(* is the constellation point at the index that the k-th group of bits      *)
(* spells, most-significant bit first.                                      *)
C7_ModulateMapping ==
    pc = "modulated" =>
        /\ Len(syms) * bps = Len(inBits)
        /\ \A k \in 1..Len(syms) :
              syms[k] = modTab[GroupValue(inBits, k, bps, bps) + 1]

C7_Witness == pc = "modulated" /\ Len(syms) >= 2 /\ syms[1] # syms[2]

\* the index that the k-th group of the demodulated bits spells
DecidedIndex(k) == GroupValue(outBits, k, bps, bps)

\* another index is as near to received symbol k as the decided one
Tie(k) ==
    \E j \in 0..(cfg.levels - 1) :
        /\ j # DecidedIndex(k)
        /\ distance_squared(rx[k], demTab[j + 1])
             = distance_squared(rx[k], demTab[DecidedIndex(k) + 1])

(* C8: demodulate_hard returns bitsPerSymbol bits per symbol, in order: the *)
(* binary representation, most-significant bit first, of the lowest index   *)
(* among those at minimum squared distance from the symbol.                 *)
C8_NearestLowestIndex ==
    pc \in {"demodulated", "tested"} =>
        /\ Len(outBits) = bps * Len(rx)
        /\ \A k \in 1..Len(rx) :
              \A j \in 0..(cfg.levels - 1) :
                 LET dj == distance_squared(rx[k], demTab[j + 1])
                     dbest == distance_squared(rx[k], demTab[DecidedIndex(k) + 1])
                 IN  /\ ~WideLess(dj, dbest)
                     /\ j < DecidedIndex(k) => WideLess(dbest, dj)

C8_Witness == pc = "demodulated" /\ Len(rx) = 1 /\ Tie(1) /\ rx # syms

RECURSIVE XorOfShifts(_, _)
\* XOR of v with all of its right shifts: Gray-to-binary decoding
XorOfShifts(v, k) ==
    IF Shr(v, k) = 0 THEN 0 ELSE Xor(Shr(v, k), XorOfShifts(v, k + 1))

\* the constellation table of the rule, at unit scale, in representation repr
RuleTable(levels, repr) ==
    IF levels = 4
    THEN [k \in 1..4 |-> <<Lit(QpskPoints[k][1], repr), Lit(QpskPoints[k][2], repr)>>]
    ELSE LET half == calculate_bits_per_symbol(levels) \div 2
         IN  [k \in 1..levels |->
                LET u == Shr(k - 1, half)
                    l == LowBits(k - 1, half)
                IN  <<Lit(PamLevels(levels)[XorOfShifts(u, 0) + 1], repr),
                      Lit(PamLevels(levels)[XorOfShifts(l, 0) + 1], repr)>>]

UnitScale == cfg.scale = Lit(1, cfg.repr)

(* C9: at unit scale every constellation table built is the table of the    *)
(* rule (QPSK cycle; for 16 and 64 the PAM levels at the Gray-decoded upper *)
(* and lower halves of the index), and demodulate_hard of the i-th symbol   *)
(* of the demodulator test's table returns the binary representation of i.  *)
C9_TableRule ==
    /\ UnitScale => modTab = RuleTable(cfg.levels, cfg.repr)
    /\ (UnitScale \/ cfg.variant = "runtime") => demTab = RuleTable(cfg.levels, cfg.repr)
    /\ (pc = "tested" /\ (UnitScale \/ cfg.variant = "runtime")) => outBits = inBits

\* the table that the same constructor builds at unit scale
UnitModTab == BuildModTab([cfg EXCEPT !.scale = Lit(1, cfg.repr)])

UnitDemTab == BuildDemTab([cfg EXCEPT !.scale = Lit(1, cfg.repr)])

\* s times the point p of a unit-scale table (exact, no wrap-around)
Times(p) ==
    <<(p[1] * cfg.scale) \div Lit(1, cfg.repr), (p[2] * cfg.scale) \div Lit(1, cfg.repr)>>

(* C10: every point of a constellation built with scale factor s is s times *)
(* the unit-scale point on both axes, in the modulator and in a demodulator *)
(* constructed with s.                                                      *)
C10_UniformScaling ==
    /\ \A k \in 1..cfg.levels : modTab[k] = Times(UnitModTab[k])
    /\ cfg.variant = "template" =>
          \A k \in 1..cfg.levels : demTab[k] = Times(UnitDemTab[k])

RECURSIVE BitDiff(_, _)
\* the number of bit positions in which the integers a and b differ
BitDiff(a, b) ==
    IF a = 0 /\ b = 0 THEN 0
    ELSE (IF a % 2 # b % 2 THEN 1 ELSE 0) + BitDiff(a \div 2, b \div 2)

\* |x|
Abs(x) == IF x < 0 THEN -x ELSE x

\* points k and l of tab share one coordinate and their other coordinates
\* are neighbouring PAM levels at scale s
AxisNeighbours(tab, s, k, l) ==
    \/ tab[k][1] = tab[l][1] /\ Abs(tab[k][2] - tab[l][2]) = 2 * s
    \/ tab[k][2] = tab[l][2] /\ Abs(tab[k][1] - tab[l][1]) = 2 * s

\* the scale factor the demodulator's table was built with
DemodScale == IF cfg.variant = "runtime" THEN Lit(1, "float") ELSE cfg.scale

(* C11: for orders 16 and 64, in the modulator's and in the demodulator's   *)
(* table any two points that share one coordinate and whose other           *)
(* coordinates are neighbouring PAM levels have indices whose binary        *)
(* representations differ in exactly one bit position.                      *)
C11_GrayAdjacency ==
    cfg.levels \in {16, 64} =>
        \A k, l \in 1..cfg.levels :
            /\ AxisNeighbours(modTab, cfg.scale, k, l) => BitDiff(k - 1, l - 1) = 1
            /\ AxisNeighbours(demTab, DemodScale, k, l) => BitDiff(k - 1, l - 1) = 1

\* bit j (1 is the most significant) of the index i of a w-bit pattern
IndexBit(i, j, w) == (i \div (2 ^ (w - j))) % 2

\* the squared distances from received symbol k to the points whose bit j is v
DistancesToBit(k, j, v) ==
    {distance_squared(rx[k], demTab[i + 1]) :
        i \in {i \in 0..(cfg.levels - 1) : IndexBit(i, j, bps) = v}}

\* the least of a non-empty set of squared distances
MinWide(D) == CHOOSE d \in D : \A e \in D : ~WideLess(e, d)

(* C12: demodulate_soft returns len(symbols) * bitsPerSymbol values, and    *)
(* the value at position k * bitsPerSymbol + j is (d0 - d1) / (2 sigma^2),  *)
(* d0 and d1 being the least squared distances from symbol k to the points  *)
(* whose bit j, most-significant bit first, is 0 and 1; neither set of      *)
(* points is empty.                                                         *)
C12_SoftValues ==
    pc = "softDemodulated" =>
        /\ Len(llrs) = Len(rx) * bps
        /\ \A k \in 1..Len(rx) : \A j \in 1..bps :
              /\ DistancesToBit(k, j, 0) # {}
              /\ DistancesToBit(k, j, 1) # {}
              /\ llrs[((k - 1) * bps) + j]
                    = [num |-> SubWide(MinWide(DistancesToBit(k, j, 0)),
                                       MinWide(DistancesToBit(k, j, 1))),
                       den |-> 2 * sigma * sigma]

\* a noisy symbol was soft-demodulated with a sigma other than the default,
\* and its first bit is not equally likely 0 and 1
C12_Witness ==
    /\ pc = "softDemodulated"
    /\ Len(rx) >= 1
    /\ rx # syms
    /\ sigma = 2
    /\ llrs[1].num # <<0, 0>>

----------------------------------------------------------------------------
(* Properties of simulate_mod, checked under SimSpec *)

\* every worker has been joined
AllJoined == mainPc \in {"report", "done"}

\* the number of trials every SNR point receives
TrialsPerPoint == params.num_threads * params.iterations_per_snr

\* C2: no lost updates.  Once all workers have been joined, for every SNR
\* index i the counter bits[i] equals numWorkers * iterationsPerSnr *
\* bitsPerWorker, errors[i] equals the sum of the mismatch counts of the trials
\* run at i, and numWorkers * iterationsPerSnr trials were run at i.
C2_NoLostUpdates ==
    AllJoined =>
        \A i \in 1..Len(snrs) :
            /\ bits[i] = TrialsPerPoint * params.bits_per_thread
            /\ errors[i] = trialErrSum[i]
            /\ trialCount[i] = TrialsPerPoint

\* two or more workers have added non-zero error counts to the same counter
C2_Witness ==
    /\ mainPc = "done"
    /\ params.num_threads >= 2
    /\ Len(snrs) >= 1
    /\ errors[1] >= 2
    /\ errors[1] = trialErrSum[1]
    /\ bits[1] = TrialsPerPoint * params.bits_per_thread

\* C3 as stated: with noise disabled the final error and bit totals of every
\* SNR point are the same for every numWorkers > 1, that is, they are those of
\* the two-worker run with the same parameters.
C3_TotalsIndependentOfWorkers ==
    (mainPc = "done" /\ noiseless /\ params.num_threads > 1) =>
        \A i \in 1..Len(snrs) :
            /\ errors[i] = 0
            /\ bits[i] = 2 * params.iterations_per_snr * params.bits_per_thread

\* C3 amended: with noise disabled, once all workers have been joined the
\* error total of every SNR point is 0 whatever numWorkers is, and the bit total
\* is numWorkers * iterationsPerSnr * bitsPerWorker: proportional to
\* numWorkers, not independent of it.
C3_NoiselessTotals ==
    (AllJoined /\ noiseless) =>
        \A i \in 1..Len(snrs) :
            /\ errors[i] = 0
            /\ bits[i] = params.num_threads * params.iterations_per_snr
                            * params.bits_per_thread

\* a noiseless run of three workers has finished with trials counted
C3_Witness ==
    /\ mainPc = "done"
    /\ noiseless
    /\ params.num_threads = 3
    /\ Len(snrs) >= 1
    /\ errors[1] = 0
    /\ bits[1] = 3 * params.iterations_per_snr * params.bits_per_thread
    /\ bits[1] > 0

\* every worker thread was started, has run to completion and been joined
WorkersFinished ==
    /\ Len(threadPc) = params.num_threads
    /\ joinIdx = params.num_threads
    /\ \A t \in 1..Len(threadPc) : threadPc[t] = "done"

\* C4: fork/join barrier.  A counter is read for a result row only after every
\* worker has run to completion and been joined; once a row has been written
\* no counter changes; and when the run is done every SNR index has exactly one
\* row, holding the final values of its two counters.
C4_ForkJoinBarrier ==
    /\ [][sink' # sink /\ mainPc = "report" => WorkersFinished]_vars
    /\ [][Len(sink) > 1 => (errors' = errors /\ bits' = bits)]_vars
    /\ [](mainPc = "done" =>
            /\ Len(sink) = Len(snrs) + 1
            /\ \A i \in 1..Len(snrs) :
                  sink[i + 1] = [snr |-> snrs[i], errors |-> errors[i],
                                 bits |-> bits[i]])

\* a run of several workers has written the rows of two SNR points
C4_Witness ==
    /\ mainPc = "done"
    /\ params.num_threads >= 2
    /\ Len(sink) = 3
    /\ sink[2].bits > 0
    /\ WorkersFinished

\* C15: result emission.  The sink receives the header first; after it come
\* rows only, row i carrying snrs[i] and the final values of errors[i] and
\* bits[i], in the order of the SNR list, which is ascending; no row is there
\* before every worker has finished; nothing written is changed or removed; and
\* when the run is done there is exactly one row per entry of the SNR list.
C15_ResultEmission ==
    /\ [](mainPc # "start" => (Len(sink) >= 1 /\ sink[1] = "SNR_dB,BER"))
    /\ [](Len(sink) > 1 => (WorkersFinished /\ Len(sink) <= Len(snrs) + 1))
    /\ [](\A i \in 2..Len(sink) :
            /\ sink[i] = [snr |-> snrs[i - 1], errors |-> errors[i - 1],
                          bits |-> bits[i - 1]]
            /\ \A j \in 2..Len(sink) : i < j => DLess(sink[i].snr, sink[j].snr))
    /\ [][\A i \in 1..Len(sink) : Len(sink') >= i /\ sink'[i] = sink[i]]_vars
    /\ [](mainPc = "done" => Len(sink) = Len(snrs) + 1)

\* a run has written, after the header, the rows of two SNR points in
\* ascending order, the second with errors counted
C15_Witness ==
    /\ mainPc = "done"
    /\ Len(sink) = 3
    /\ sink[1] = "SNR_dB,BER"
    /\ DLess(sink[2].snr, sink[3].snr)
    /\ sink[3].errors > 0

RECURSIVE SweepTerm(_)
\* snr_start + k * snr_step, exactly
SweepTerm(k) ==
    IF k = 0 THEN params.snr_start
    ELSE DAddExact(SweepTerm(k - 1), params.snr_step)

\* the loop over snr has ended
SweepBuilt == mainPc \in {"spawn", "join", "report", "done", "terminated"}

\* C18: the SNR list is snr_start + k * snr_step for k = 0..K, K the largest
\* integer with snr_start + K * snr_step <= snr_end; it is strictly
\* ascending, empty when snr_start > snr_end, and it holds snr_end whenever
\* snr_end - snr_start is an exact multiple of snr_step.
C18_SnrList ==
    SweepBuilt =>
        /\ \A k \in 1..Len(snrs) : snrs[k] = SweepTerm(k - 1)
        /\ Len(snrs) > 0 => DLeq(SweepTerm(Len(snrs) - 1), params.snr_end)
        /\ ~DLeq(SweepTerm(Len(snrs)), params.snr_end)
        /\ \A k \in 1..(Len(snrs) - 1) : DLess(snrs[k], snrs[k + 1])
        /\ DLess(params.snr_end, params.snr_start) => snrs = <<>>
        /\ (\E k \in 0..(Len(snrs) + 1) : SweepTerm(k) = params.snr_end)
              => \E i \in 1..Len(snrs) : snrs[i] = params.snr_end

\* the trials of one worker in the order of the two loops, each started and
\* then counted
WorkerOrder ==
    [k \in 1..(2 * Len(snrs) * params.iterations_per_snr) |->
        [kind |-> IF k % 2 = 1 THEN "started" ELSE "counted",
         i |-> ((k - 1) \div 2) \div params.iterations_per_snr,
         iter |-> ((k - 1) \div 2) % params.iterations_per_snr]]

\* C19: per-worker ordering.  What a worker has done so far is a prefix of
\* its trials in the order of the SNR list and, within an SNR point, of the
\* iteration counter, each trial started only once the one before it has been
\* counted; so no earlier SNR index comes again, and a worker that has
\* finished has done exactly iterations_per_snr trials at every index.
C19_WorkerOrder ==
    \A t \in 1..Len(threadHist) :
        /\ Len(threadHist[t]) <= Len(WorkerOrder)
        /\ \A k \in 1..Len(threadHist[t]) : threadHist[t][k] = WorkerOrder[k]
        /\ threadPc[t] = "trial" => Len(threadHist[t]) % 2 = 0
        /\ threadPc[t] = "done" => threadHist[t] = WorkerOrder

\* a worker has finished, with one trial at each of two SNR points, while
\* another worker is still in its first trial
C19_Witness ==
    \E t, u \in 1..Len(threadHist) :
        /\ threadPc[t] = "done"
        /\ Len(threadHist[t]) = 4
        /\ threadHist[t][3].i = 1
        /\ Len(threadHist[u]) = 1

\* C20: padding.  The run of a scheme gets, for bits_per_thread, the least
\* multiple of the scheme's bits per symbol that is not below the value asked
\* for, which is that value when it is a multiple already; so every batch a
\* worker passes to modulate has a valid length, modulate never throws, and
\* no worker and no run is terminated by an exception.
C20_Padding ==
    /\ [][(mainPc = "start" /\ mainPc' # "start") =>
             LET b == calculate_bits_per_symbol(params.modulation_levels)
                 asked == params.bits_per_thread
                 got == params'.bits_per_thread
             IN  /\ got % b = 0
                 /\ got >= asked
                 /\ got - asked < b
                 /\ asked % b = 0 => got = asked]_vars
    /\ [](mainPc # "terminated")
    /\ [](\A t \in 1..Len(threadPc) :
            /\ threadPc[t] # "terminated"
            /\ threadPc[t] = "addErrors" =>
                  /\ threadLen[t] = params.bits_per_thread
                  /\ threadLen[t]
                        % calculate_bits_per_symbol(params.modulation_levels) = 0)

\* a worker of a 64-QAM run, asked for 1 or 2 bits per thread, has modulated
\* a batch of 6 bits
C20_Witness ==
    \E t \in 1..Len(threadPc) :
        /\ threadPc[t] = "addErrors"
        /\ params.modulation_levels = 64
        /\ threadLen[t] = 6

----------------------------------------------------------------------------
(* Properties of addNoise, checked under NoiseSpec *)

\* C13: addNoise is additive and keeps the order: for a non-empty batch the
\* output has as many symbols as the input, every output symbol is the input
\* symbol at the same position plus two of the samples drawn, one on each
\* component, and when every sample drawn is 0 the output is the input; on
\* every body, scalar or vectorized, and for every batch length.
C13_AdditiveInOrder ==
    (noisePc = "returned" /\ noiseIn # <<>>) =>
        /\ Len(noisy) = Len(noiseIn)
        /\ \A k \in 1..Len(noiseIn) :
              \E p, q \in 1..noiseDraws :
                 /\ p # q
                 /\ noisy[k] = <<noiseIn[k][1] + Sample(noiseSeed, p),
                                 noiseIn[k][2] + Sample(noiseSeed, q)>>
        /\ (\A n \in 1..noiseDraws : Sample(noiseSeed, n) = 0) => noisy = noiseIn

RECURSIVE TotalEnergy(_)
\* the sum of re^2 + im^2 over a batch, in squared units of the representation
TotalEnergy(symbols) ==
    IF symbols = <<>> THEN 0
    ELSE (Head(symbols)[1] * Head(symbols)[1]) + (Head(symbols)[2] * Head(symbols)[2])
            + TotalEnergy(Tail(symbols))

\* C14: for a non-empty batch the variance of the distribution the samples
\* are drawn from is sigma^2 = P / (2 * gamma), with P the mean of
\* re^2 + im^2 over the batch and gamma = 10^(snrDb / 10); that is,
\* sigma^2 * 2 * gamma * N = sum of re^2 + im^2.  The one distribution serves
\* both components of every symbol.
C14_NoiseLevel ==
    (noisePc = "returned" /\ noiseIn # <<>>) =>
        /\ noiseSigmaSq.den > 0
        /\ noiseSigmaSq.num * 2 * snr_linear(noiseSnrDb).num * Len(noiseIn) * ScaleDen * ScaleDen
              = noiseSigmaSq.den * snr_linear(noiseSnrDb).den * TotalEnergy(noiseIn)

\* a batch of points of different powers has had its noise level computed
\* for an SNR other than 0 dB
C14_Witness ==
    /\ noisePc = "returned"
    /\ Len(noiseIn) >= 3
    /\ TotalEnergy(<<noiseIn[1]>>) # TotalEnergy(<<noiseIn[2]>>)
    /\ noiseSnrDb = 10
    /\ noiseSigmaSq.num > 0

----------------------------------------------------------------------------
(* Properties of construction, checked under CtorSpec *)

\* log2 of a supported order
Log2(levels) == CHOOSE b \in 1..6 : 2 ^ b = levels

\* C16: a constructor of the runtime-order classes that is passed levels
\* outside {4, 16, 64} ends by throwing std::invalid_argument from its own
\* check, and builds no constellation and no bit-pattern table; a construction
\* with levels in {4, 16, 64} ends constructed with bitsPerSymbol = log2(levels).
C16_UnsupportedOrder ==
    /\ (ctor.variant = "runtime" /\ ctor.levels \notin {4, 16, 64}) =>
          /\ ctor.pc # "constructed"
          /\ ctor.constellation = <<>>
          /\ ctor.bit_patterns = <<>>
          /\ ctor.pc = "failed" => ctor.thrown = "std::invalid_argument"
    /\ (ctor.pc \in {"failed", "constructed"} /\ ctor.levels \in {4, 16, 64}) =>
          /\ ctor.pc = "constructed"
          /\ ctor.bits_per_symbol = Log2(ctor.levels)

\* the mean of re^2 + im^2 over the points of a unit-scale constellation
UnitPower(levels) ==
    CASE levels = 4 -> 2
      [] levels = 16 -> 10
      [] levels = 64 -> 42

\* n = k * s * s, for s > 0, without forming the product
IsMultipleOfSquare(n, k, s) ==
    /\ n % s = 0
    /\ (n \div s) % s = 0
    /\ (n \div s) \div s = k

\* C17: the averagePower of a constructed modulator is the mean of
\* re^2 + im^2 over its constellation, 2 s^2, 10 s^2 or 42 s^2 for the scale s,
\* in every representation: the fixed-point accumulation does not wrap.
C17_AveragePower ==
    (ctor.pc = "constructed" /\ ctor.class = "ModulatorQAM") =>
        IF ctor.repr = "float"
        THEN ctor.avg_power.num * ScaleDen * ScaleDen
                = ctor.avg_power.den * UnitPower(ctor.levels) * ctor.scale * ctor.scale
        ELSE /\ ctor.avg_power.den = 1
             /\ IsMultipleOfSquare(ctor.avg_power.num, UnitPower(ctor.levels), ctor.scale)

----------------------------------------------------------------------------
(* Further properties of the codec, checked under Spec *)

\* points p and q differ in exactly one coordinate
OneCoordinateApart(p, q) ==
    \/ p[1] = q[1] /\ p[2] # q[2]
    \/ p[1] # q[1] /\ p[2] = q[2]

\* the number of positions in which two bit patterns differ
PatternDiff(a, b) == Cardinality({j \in 1..Len(a) : a[j] # b[j]})

\* C25: for order 4 the bit pattern of an index is its 2-bit binary
\* representation, and any two points of a table that differ in exactly one
\* coordinate, the consecutive entries of the cycle 0, 1, 2, 3, 0 among them,
\* have bit patterns that differ in exactly one bit.
C25_QpskGray ==
    cfg.levels = 4 =>
        /\ \A k \in 1..4 : bitPatterns[k] = <<(k - 1) \div 2, (k - 1) % 2>>
        /\ \A k \in 1..4 : OneCoordinateApart(modTab[k], modTab[(k % 4) + 1])
        /\ \A k, l \in 1..4 :
              /\ OneCoordinateApart(modTab[k], modTab[l])
                    => PatternDiff(bitPatterns[k], bitPatterns[l]) = 1
              /\ OneCoordinateApart(demTab[k], demTab[l])
                    => PatternDiff(bitPatterns[k], bitPatterns[l]) = 1

\* the hard decisions of the demodulator on the batch that demodulate_soft
\* was given
HardOfSoftBatch == DemodT_demodulate_hard(demTab, bitPatterns, rx)

\* C28: soft and hard decisions agree.  For every symbol and bit position, and
\* sigma > 0, the value of demodulate_soft is not negative where
\* demodulate_hard gives bit 1 and not positive where it gives bit 0.
C28_SoftAgreesWithHard ==
    (pc = "softDemodulated" /\ sigma > 0) =>
        \A n \in 1..Len(llrs) :
            /\ llrs[n].den > 0
            /\ HardOfSoftBatch[n] = 1 => llrs[n].num[1] >= 0
            /\ HardOfSoftBatch[n] = 0 =>
                  (llrs[n].num[1] < 0 \/ llrs[n].num = <<0, 0>>)

\* a noisy symbol has been given a positive and a negative value
C28_Witness ==
    /\ pc = "softDemodulated"
    /\ rx # syms
    /\ \E n, m \in 1..Len(llrs) :
          /\ llrs[n].num[1] >= 0 /\ llrs[n].num # <<0, 0>> /\ HardOfSoftBatch[n] = 1
          /\ llrs[m].num[1] < 0 /\ HardOfSoftBatch[m] = 0

\* the points of a table are pairwise distinct
DistinctPoints(tab) == \A k, l \in 1..Len(tab) : k # l => tab[k] # tab[l]

\* C30: a modulator and a demodulator of the same order and the same scale
\* factor hold the same table, index by index, and each table has `levels`
\* pairwise distinct points; for the runtime-order pair, whose demodulator
\* takes no scale factor, and for the compile-time-order pair.
C30_CodecConsistency ==
    SameScale =>
        /\ Len(modTab) = cfg.levels
        /\ Len(demTab) = cfg.levels
        /\ \A i \in 1..cfg.levels : modTab[i] = demTab[i]
        /\ DistinctPoints(modTab)
        /\ DistinctPoints(demTab)

----------------------------------------------------------------------------
(* Further properties of simulate_mod, checked under SimSpec *)

\* C26: the BER is always well defined.  For every accepted parameter set,
\* num_threads = 0 and iterations_per_snr = 0 included, every row written
\* was computed from counters with bits[i] > 0 and 0 <= errors[i] <= bits[i].
C26_BerWellDefined ==
    \A i \in 2..Len(sink) :
        /\ sink[i].bits > 0
        /\ 0 <= sink[i].errors
        /\ sink[i].errors <= sink[i].bits

\* C27: in every trial the recovered batch r has as many bits as the batch b
\* that was sent: the channel returns as many symbols as modulate produced,
\* demodulate_hard returns bitsPerSymbol bits for each of them, so the
\* comparison loop over j < b.size() reads r only inside its bounds, and the
\* trial's error count is at most b.size().
C27_BatchSizes ==
    \A t \in 1..Len(threadPc) :
        threadPc[t] \in {"addErrors", "addBits"} =>
            /\ threadRx[t].n = threadRx[t].s
            /\ threadRx[t].r = threadRx[t].n * calculate_bits_per_symbol(params.modulation_levels)
            /\ threadRx[t].r = threadLen[t]
            /\ threadErr[t] <= threadLen[t]

\* a 64-QAM trial over a noisy channel has compared one symbol's six bits and
\* found some of them wrong
C27_Witness ==
    \E t \in 1..Len(threadPc) :
        /\ threadPc[t] = "addErrors"
        /\ params.modulation_levels = 64
        /\ ~noiseless
        /\ threadRx[t] = [s |-> 1, n |-> 1, r |-> 6]
        /\ threadLen[t] = 6
        /\ threadErr[t] > 0

\* C29: the loop that builds the SNR list ends with a finite list for every
\* accepted parameter set, snr_step = 0 with snr_start <= snr_end included:
\* every pass of the loop moves snr strictly towards snr_end, the list never
\* outgrows memory, and no worker exists before the list is complete.
C29_SweepTerminates ==
    /\ [][(mainPc = "snrLoop" /\ snrs' # snrs) => DLess(snr, snr')]_vars
    /\ [](mainPc # "exhausted")
    /\ [](Len(threadPc) > 0 => SweepBuilt)

\* worker t has run all its trials, in the order of its two loops
WorkerCompleted(t) ==
    /\ t <= Len(threadPc)
    /\ threadPc[t] = "done"
    /\ threadHist[t] = WorkerOrder

\* C24: a run terminates.  Once the SNR list is built, under fair scheduling
\* every worker that is started completes all |snrs| * iterations_per_snr
\* trials; a worker that has not finished can always take its next step,
\* whatever the other workers do; the joins return; and every row is
\* written before simulate_mod returns.
C24_RunTerminates ==
    /\ [](\A t \in 1..Len(threadPc) :
            threadPc[t] \in {"trial", "addErrors", "addBits"} => ENABLED WorkerStep(t))
    /\ (mainPc = "spawn")
          ~> (\A t \in 1..params.num_threads : WorkerCompleted(t))
    /\ (mainPc = "spawn")
          ~> (mainPc = "done" /\ joinIdx = params.num_threads
                /\ Len(sink) = Len(snrs) + 1)

\* a run of two workers over two SNR points has returned with both rows
\* written, every worker having run its trials and been joined
C24_Witness ==
    /\ mainPc = "done"
    /\ Len(threadPc) = 2
    /\ joinIdx = 2
    /\ Len(snrs) = 2
    /\ Len(sink) = 3
    /\ WorkerCompleted(1) /\ WorkerCompleted(2)
    /\ Len(WorkerOrder) = 4

----------------------------------------------------------------------------
(* Properties of the workers' seeds, checked under SeedSpec *)

\* C22: unique seeding.  The seeds of the workers of one run, each the clock
\* reading taken when the worker is spawned plus the worker's index,
\* truncated to unsigned, are pairwise distinct whatever non-decreasing
\* readings the clock gives.
C22_UniqueSeeds ==
    \A t, u \in 1..Len(seeds) : t # u => seeds[t] # seeds[u]

----------------------------------------------------------------------------
(* Further properties of addNoise, checked under NoiseSpec *)

\* C23: every call has an independent noise stream.  After a call on a
\* non-empty batch, a further call on the same batch at the same SNR can
\* return something else: its engine is seeded afresh, or it is the
\* NoiseAdder's own engine, which every call leaves further on in its stream.
C23_IndependentStreams ==
    /\ [][(noisePath = "runtime" /\ noiseCalls' > noiseCalls /\ noiseIn # <<>>)
             => noiseDraws' > noiseDraws]_vars
    /\ [](  (noisePath # "runtime" /\ noiseCalls = 1 /\ noiseIn # <<>>)
             => ENABLED (CallAddNoise /\ noisy' # noisy))

----------------------------------------------------------------------------
(* Properties of the threads' accesses, checked under SimSpec *)

\* the accesses made to the object of access a
SameObject(a) == {c \in access : c[2] = a[2] /\ c[3] = a[3]}

\* the object of access a is accessed by one thread only
OnlyOwnThread(a) == \A c \in SameObject(a) : c[1] = a[1]

\* C21: no shared mutable state besides the counters.  From the start of the
\* first worker on, an object that a worker writes and another thread
\* accesses is errors[i] or bits[i]; the tables of mod and demod, the SNR
\* list and the parameters are only read; and every generator, NoiseAdder,
\* bit batch and symbol batch is accessed by one worker only.
C21_NoSharedMutableState ==
    \A a \in access :
        /\ a[2] \in {"mod", "demod", "snrs", "p"} => a[4] = "read"
        /\ a[2] \in {"rng", "noise", "b", "s", "n", "r"} => a[1] # 0
        /\ (a[1] # 0 /\ a[4] = "write" /\ a[2] \notin {"errors", "bits"})
              => OnlyOwnThread(a)

\* two workers have each run a trial with their own generator and NoiseAdder,
\* both have added to errors[0], and the result loop has read it
C21_Witness ==
    /\ Access(1, "errors", 0, "write") \in access
    /\ Access(2, "errors", 0, "write") \in access
    /\ Access(0, "errors", 0, "read") \in access
    /\ Access(1, "noise", 1, "write") \in access
    /\ Access(2, "noise", 2, "write") \in access
    /\ Access(2, "mod", 0, "read") \in access
    /\ mainPc = "done"

====
